---- MODULE Spec2Model ----
(***************************************************************************)
(* Multi-party authorization engine of learning-solana: the native         *)
(* `multisig` program (projects/multisig) and its Anchor rewrite           *)
(* `anchor-multisig` (projects/anchor-multisig).  Each invocation of a     *)
(* program is one atomic step: the host applies all writes of a            *)
(* successful invocation and none of a failed one.  Cross-program calls    *)
(* issued while a Proposal executes are evaluated inside the step by the   *)
(* recursive operator Invoke.                                              *)
(***************************************************************************)
EXTENDS Integers, Sequences, FiniteSets, TLC

\* ------------------------------------------------------------------ bounds
MaxThreshold == 2       \* threshold arguments range over 0..MaxThreshold
MaxInvokeHeight == 3    \* instruction stack height the host allows
MaxCount == 2           \* the dispatch counter saturates here

Keys == {1, 2}          \* the principals (key pairs)
GroupNames == {"g1", "g2"}
Programs == {"multisig", "anchor_multisig"}

\* --------------------------------------------------------------- addresses
\* Addresses are triples <<kind, name, number>> so that any two compare.
User(k) == <<"user", "", k>>
Users == {User(k) : k \in Keys}
SystemProgram == <<"program", "system", 0>>

\* Pubkey::find_program_address(["multisig", program_id, name]): injective
MultisigPda(name) == <<"multisig", name, 0>>
\* Pubkey::find_program_address(["proposal", program_id, multisig, id])
ProposalPda(multisig, id) == <<"proposal", multisig[2], id>>

MultisigPdas == {MultisigPda(n) : n \in GroupNames}
ProposalPdas == {ProposalPda(m, 0) : m \in MultisigPdas}
Pdas == MultisigPdas \cup ProposalPdas

\* ------------------------------------------------------------ account data
NoAccount == [type |-> "none"]

\* struct Multisig { name, members, threshold }
Multisig_new(name, members, threshold) ==
    [type |-> "multisig", name |-> name, members |-> members,
     threshold |-> threshold]

\* struct Proposal { id, actions, approvers, executed, multisig }
Proposal_new(id, actions, multisig) ==
    [type |-> "proposal", id |-> id, actions |-> actions, approvers |-> <<>>,
     executed |-> FALSE, multisig |-> multisig]

\* the data stored at an address (a key pair's account holds no program data)
Data(st, a) == IF a \in DOMAIN st THEN st[a] ELSE NoAccount

\* -------------------------------------------------------- results of calls
\* a value or an error of a method
Ok(v) == [err |-> "Ok", val |-> v]
Err(e) == [err |-> e, val |-> NoAccount]

\* the outcome of an instruction: error code, account store, calls issued
Done(st, log) == [err |-> "Ok", st |-> st, log |-> log]
Fail(e, st, log) == [err |-> e, st |-> st, log |-> log]

Contains(seq, x) == \E i \in 1..Len(seq) : seq[i] = x
Retain(seq, x) == SelectSeq(seq, LAMBDA y : y # x)
Drop(seq, n) == SubSeq(seq, n + 1, Len(seq))

\* ------------------------------------------- native Multisig (multisig.rs)
Multisig_is_member(ms, member) == Contains(ms.members, member)

\* a check_member that accepts every principal
EveryoneIsMember(ms, member) == Ok(ms)

Multisig_check_member(ms, member) ==
    IF ~Multisig_is_member(ms, member) THEN Err("NotAMember") ELSE Ok(ms)

\* an add_member that appends without looking for the address
AddWithoutLooking(ms, member) ==
    Ok([ms EXCEPT !.members = Append(@, member)])

Multisig_add_member(ms, member) ==
    IF Multisig_is_member(ms, member)
    THEN Ok(ms)
    ELSE Ok([ms EXCEPT !.members = Append(@, member)])

\* a remove_member without the test for an empty member list
RemoveWithoutEmptyCheck(ms, member) ==
    LET kept == Retain(ms.members, member) IN
    IF ms.threshold > Len(kept) THEN Err("ThresholdTooHigh")
    ELSE Ok([ms EXCEPT !.members = kept])

\* a remove_member without the test of the threshold against the remaining
\* members
RemoveWithoutThresholdCheck(ms, member) ==
    LET kept == Retain(ms.members, member) IN
    IF Len(kept) = 0 THEN Err("NoMembers")
    ELSE Ok([ms EXCEPT !.members = kept])

Multisig_remove_member(ms, member) ==
    LET kept == Retain(ms.members, member) IN
    IF Len(kept) = 0 THEN Err("NoMembers")
    ELSE IF ms.threshold > Len(kept) THEN Err("ThresholdTooHigh")
    ELSE Ok([ms EXCEPT !.members = kept])

\* a set_threshold without the lower bound
SetThresholdNoLowerBound(ms, threshold) ==
    IF threshold > Len(ms.members) THEN Err("ThresholdTooHigh")
    ELSE Ok([ms EXCEPT !.threshold = threshold])

Multisig_set_threshold(ms, threshold) ==
    IF threshold > Len(ms.members) THEN Err("ThresholdTooHigh")
    ELSE IF threshold = 0 THEN Err("ThresholdTooLow")
    ELSE Ok([ms EXCEPT !.threshold = threshold])

\* Multisig::get: deserialize, then check the address against the name's PDA
Multisig_get(st, account) ==
    LET d == Data(st, account) IN
    IF d.type # "multisig" THEN Err("InvalidAccountData")
    ELSE IF MultisigPda(d.name) # account THEN Err("InvalidPda")
    ELSE Ok(d)

\* ------------------------------------------- native Proposal (proposal.rs)
\* a has_approved that never finds the approver: with it approvers repeat
NeverApproved(p, approver) == FALSE

Proposal_has_approved(p, approver) == Contains(p.approvers, approver)

\* an approve that also empties the batch of the proposal
approve_dropping_actions(p, ms, approver) ==
    IF Multisig_check_member(ms, approver).err # "Ok" THEN Err("NotAMember")
    ELSE IF Proposal_has_approved(p, approver) THEN Err("AlreadyApproved")
    ELSE Ok([p EXCEPT !.approvers = Append(@, approver), !.actions = <<>>])

Proposal_approve(p, ms, approver) ==
    IF Multisig_check_member(ms, approver).err # "Ok" THEN Err("NotAMember")
    ELSE IF Proposal_has_approved(p, approver) THEN Err("AlreadyApproved")
    ELSE Ok([p EXCEPT !.approvers = Append(@, approver)])

\* a has_reached_threshold that asks for one approval more than the threshold
ReachedOnlyAbove(p, ms) == Len(p.approvers) > ms.threshold

\* a has_reached_threshold that counts only approvers who are still members
ReachedByCurrentMembers(p, ms) ==
    Cardinality({i \in 1..Len(p.approvers) :
                    Contains(ms.members, p.approvers[i])}) >= ms.threshold

Proposal_has_reached_threshold(p, ms) == Len(p.approvers) >= ms.threshold

\* Proposal::get: deserialize, then check the address against the PDA of the
\* stored (multisig, id)
Proposal_get(st, account) ==
    LET d == Data(st, account) IN
    IF d.type # "proposal" THEN Err("InvalidAccountData")
    ELSE IF ProposalPda(d.multisig, d.id) # account THEN Err("InvalidPda")
    ELSE Ok(d)

\* -------------------------------------------------- storage (storage.rs)
\* a create_pda that does not look at the owner of the account
create_pda_unchecked(st, payer, signers, pda_key, pda) ==
    IF pda # pda_key \/ payer \notin signers THEN "CreateAccountFailed"
    ELSE "Ok"

\* create_pda: the account must not yet belong to the program; the system
\* program then creates the account at the derived address pda_key, which
\* needs the payer's signature and the account to be the one at pda_key.
\* Records are assumed funded for their size.
create_pda(st, payer, signers, pda_key, pda) ==
    IF Data(st, pda).type # "none" THEN "AccountAlreadyInitialized"
    ELSE IF pda # pda_key \/ payer \notin signers THEN "CreateAccountFailed"
    ELSE "Ok"

\* ------------------------------------------------ the two programs' calls
RECURSIVE create_members(_, _)
RECURSIVE process_instruction(_, _, _, _, _)
RECURSIVE anchor_multisig(_, _, _, _, _)
RECURSIVE Invoke(_, _, _, _, _, _)
RECURSIVE execute_actions(_, _, _, _, _, _, _, _, _)
RECURSIVE anchor_execute_actions(_, _, _, _, _, _, _, _, _)

\* one cross-program call issued by a Proposal's execution
Event(authority, proposal, index) ==
    [authority |-> authority, proposal |-> proposal, index |-> index]

\* a program outside the model: "Noop" succeeds, anything else fails
external_program(st, data) ==
    IF data.op = "Noop" THEN Done(st, <<>>) ELSE Fail("ExternalError", st, <<>>)

\* the host's invoke_signed: the callee runs one level higher, with the
\* caller's signers and the PDAs the caller signed for
Invoke(st, program_id, data, accs, signers, height) ==
    IF height > MaxInvokeHeight THEN Fail("CallDepth", st, <<>>)
    ELSE IF program_id = "multisig"
    THEN process_instruction(st, data, accs, signers, height)
    ELSE IF program_id = "anchor_multisig"
    THEN anchor_multisig(st, data, accs, signers, height)
    ELSE external_program(st, data)

\* a comparison of the first account only
FirstAccountMatches(action, accs) ==
    action.accounts = <<>> \/ accs[1] = action.accounts[1]

\* the positional comparison of Multisig::execute_action / Multisig::execute
AccountsMatch(action, accs) ==
    \A i \in 1..Len(action.accounts) : accs[i] = action.accounts[i]

\* Multisig::execute_action: match the accounts, then call the target signed
\* with the seeds of `ms`
Multisig_execute_action(st, ms, action, accs, signers, height, ev) ==
    IF ~AccountsMatch(action, accs) THEN Fail("InvalidAccountData", st, <<>>)
    ELSE LET r == Invoke(st, action.program_id, action.data, accs,
                         signers \cup {MultisigPda(ms.name)}, height + 1)
         IN [r EXCEPT !.log = <<ev>> \o @]

RECURSIVE execute_actions_unchecked(_, _, _, _, _, _, _, _, _)
\* a loop that drops the result of execute_action and goes on with the next
\* action
execute_actions_unchecked(st, ms, proposal_account, actions, i, accs, signers, height, log) ==
    IF i > Len(actions) THEN Done(st, log)
    ELSE LET n == Len(actions[i].accounts) IN
         IF Len(accs) < n THEN Fail("NotEnoughAccountKeys", st, log)
         ELSE LET r == Multisig_execute_action(st, ms, actions[i],
                           SubSeq(accs, 1, n), signers, height,
                           Event(MultisigPda(ms.name), proposal_account, i))
              IN execute_actions_unchecked(
                     IF r.err = "Ok" THEN r.st ELSE st, ms, proposal_account,
                     actions, i + 1, Drop(accs, n), signers, height,
                     log \o r.log)

RECURSIVE execute_actions_same_slice(_, _, _, _, _, _, _, _, _)
\* a loop that hands every action the head of the stream, without advancing
execute_actions_same_slice(st, ms, proposal_account, actions, i, accs, signers, height, log) ==
    IF i > Len(actions) THEN Done(st, log)
    ELSE LET n == Len(actions[i].accounts) IN
         IF Len(accs) < n THEN Fail("NotEnoughAccountKeys", st, log)
         ELSE LET r == Multisig_execute_action(st, ms, actions[i],
                           SubSeq(accs, 1, n), signers, height,
                           Event(MultisigPda(ms.name), proposal_account, i))
              IN IF r.err # "Ok" THEN [r EXCEPT !.log = log \o @]
                 ELSE execute_actions_same_slice(r.st, ms, proposal_account,
                                      actions, i + 1, accs, signers, height,
                                      log \o r.log)

\* the loop of proposal::execute over proposal.actions, from action i on.
\* Each action goes to multisig::execute_action(program_id, multisig_account,
\* action, accounts), which receives only the supplied multisig account and
\* reaches Multisig::execute_action on the record `ms` stored there.
execute_actions(st, ms, proposal_account, actions, i, accs, signers, height, log) ==
    IF i > Len(actions) THEN Done(st, log)
    ELSE LET n == Len(actions[i].accounts) IN
         IF Len(accs) < n THEN Fail("NotEnoughAccountKeys", st, log)
         ELSE LET r == Multisig_execute_action(st, ms, actions[i],
                           SubSeq(accs, 1, n), signers, height,
                           Event(MultisigPda(ms.name), proposal_account, i))
              IN IF r.err # "Ok" THEN [r EXCEPT !.log = log \o @]
                 ELSE execute_actions(r.st, ms, proposal_account, actions,
                                      i + 1, Drop(accs, n), signers, height,
                                      log \o r.log)

\* --------------------------------------- native handlers of multisig.rs
\* create deduplicates the members with add_member
create_members(ms, members) ==
    IF members = <<>> THEN ms
    ELSE create_members(Multisig_add_member(ms, Head(members)).val,
                        Tail(members))

multisig_create(st, accs, signers, name, members, threshold) ==
    IF Len(accs) < 2 THEN Fail("NotEnoughAccountKeys", st, <<>>)
    ELSE LET payer == accs[1]
             multisig_account == accs[2]
             multisig == create_members(Multisig_new(name, <<>>, threshold),
                                        members)
             c == create_pda(st, payer, signers, MultisigPda(name),
                             multisig_account)
         IN IF c # "Ok" THEN Fail(c, st, <<>>)
            ELSE Done([st EXCEPT ![multisig_account] = multisig], <<>>)

\* a group update that does not ask for the multisig's signature: with it
\* any principal changes any group
UnsignedUpdate(st, accs, signers, m) ==
    IF Len(accs) < 1 THEN Fail("NotEnoughAccountKeys", st, <<>>)
    ELSE IF Multisig_get(st, accs[1]).err # "Ok"
    THEN Fail(Multisig_get(st, accs[1]).err, st, <<>>)
    ELSE IF m.err # "Ok" THEN Fail(m.err, st, <<>>)
    ELSE Done([st EXCEPT ![accs[1]] = m.val], <<>>)

\* the shape shared by add_member, remove_member and set_threshold: the
\* multisig account must sign, is loaded, changed by `change`, and saved
MultisigUpdate(st, accs, signers, m) ==
    IF Len(accs) < 1 THEN Fail("NotEnoughAccountKeys", st, <<>>)
    ELSE IF accs[1] \notin signers
    THEN Fail("MissingRequiredSignature", st, <<>>)
    ELSE IF Multisig_get(st, accs[1]).err # "Ok"
    THEN Fail(Multisig_get(st, accs[1]).err, st, <<>>)
    ELSE IF m.err # "Ok" THEN Fail(m.err, st, <<>>)
    ELSE Done([st EXCEPT ![accs[1]] = m.val], <<>>)

multisig_add_member(st, accs, signers, new_member) ==
    MultisigUpdate(st, accs, signers,
        Multisig_add_member(Data(st, accs[1]), new_member))

multisig_remove_member(st, accs, signers, member_to_remove) ==
    MultisigUpdate(st, accs, signers,
        Multisig_remove_member(Data(st, accs[1]), member_to_remove))

multisig_set_threshold(st, accs, signers, new_threshold) ==
    MultisigUpdate(st, accs, signers,
        Multisig_set_threshold(Data(st, accs[1]), new_threshold))

\* --------------------------------------- native handlers of proposal.rs
proposal_create(st, accs, signers, id, actions) ==
    IF Len(accs) < 3 THEN Fail("NotEnoughAccountKeys", st, <<>>)
    ELSE LET member == accs[1]
             multisig_account == accs[2]
             proposal_account == accs[3]
             mg == Multisig_get(st, multisig_account)
         IN IF member \notin signers
            THEN Fail("MissingRequiredSignature", st, <<>>)
            ELSE IF mg.err # "Ok" THEN Fail(mg.err, st, <<>>)
            ELSE IF Multisig_check_member(mg.val, member).err # "Ok"
            THEN Fail("NotAMember", st, <<>>)
            ELSE LET proposal == Proposal_new(id, actions, multisig_account)
                     c == create_pda(st, member, signers,
                                     ProposalPda(multisig_account, id),
                                     proposal_account)
                 IN IF c # "Ok" THEN Fail(c, st, <<>>)
                    ELSE Done([st EXCEPT ![proposal_account] = proposal], <<>>)

\* an execute that only a member of the supplied group may call
execute_by_members_only(st, accs, signers, height) ==
    IF Len(accs) < 3 THEN Fail("NotEnoughAccountKeys", st, <<>>)
    ELSE LET multisig_account == accs[2]
             proposal_account == accs[3]
             pg == Proposal_get(st, proposal_account)
             mg == Multisig_get(st, multisig_account)
         IN IF pg.err # "Ok" THEN Fail(pg.err, st, <<>>)
            ELSE IF mg.err # "Ok" THEN Fail(mg.err, st, <<>>)
            ELSE IF ~Multisig_is_member(mg.val, accs[1])
            THEN Fail("NotAMember", st, <<>>)
            ELSE IF ~Proposal_has_reached_threshold(pg.val, mg.val)
            THEN Fail("NotEnoughApprovals", st, <<>>)
            ELSE IF pg.val.executed THEN Fail("AlreadyExecuted", st, <<>>)
            ELSE execute_actions(
                     [st EXCEPT ![proposal_account].executed = TRUE],
                     mg.val, proposal_account, pg.val.actions, 1,
                     Drop(accs, 3), signers, height, <<>>)

proposal_execute(st, accs, signers, height) ==
    IF Len(accs) < 3 THEN Fail("NotEnoughAccountKeys", st, <<>>)
    ELSE LET multisig_account == accs[2]
             proposal_account == accs[3]
             pg == Proposal_get(st, proposal_account)
             mg == Multisig_get(st, multisig_account)
         IN IF pg.err # "Ok" THEN Fail(pg.err, st, <<>>)
            ELSE IF mg.err # "Ok" THEN Fail(mg.err, st, <<>>)
            ELSE IF ~Proposal_has_reached_threshold(pg.val, mg.val)
            THEN Fail("NotEnoughApprovals", st, <<>>)
            ELSE IF pg.val.executed THEN Fail("AlreadyExecuted", st, <<>>)
            ELSE execute_actions(
                     [st EXCEPT ![proposal_account].executed = TRUE],
                     mg.val, proposal_account, pg.val.actions, 1,
                     Drop(accs, 3), signers, height, <<>>)

\* an approve that goes on to execute whatever the flag says
approve_always_executing(st, accs, signers, try_execute, height) ==
    IF Len(accs) < 4 THEN Fail("NotEnoughAccountKeys", st, <<>>)
    ELSE LET member == accs[1]
             multisig_account == accs[2]
             proposal_account == accs[3]
             mg == Multisig_get(st, multisig_account)
             pg == Proposal_get(st, proposal_account)
             ap == Proposal_approve(pg.val, mg.val, member)
         IN IF member \notin signers
            THEN Fail("MissingRequiredSignature", st, <<>>)
            ELSE IF mg.err # "Ok" THEN Fail(mg.err, st, <<>>)
            ELSE IF pg.err # "Ok" THEN Fail(pg.err, st, <<>>)
            ELSE IF ap.err # "Ok" THEN Fail(ap.err, st, <<>>)
            ELSE IF Proposal_has_reached_threshold(ap.val, mg.val)
            THEN proposal_execute([st EXCEPT ![proposal_account] = ap.val],
                                  Drop(accs, 4), signers, height)
            ELSE Done([st EXCEPT ![proposal_account] = ap.val], <<>>)

\* an approve whose chained step dispatches the batch of the proposal named
\* by the operands after the first four without checking it
approve_chaining_unchecked(st, accs, signers, try_execute, height) ==
    IF Len(accs) < 4 THEN Fail("NotEnoughAccountKeys", st, <<>>)
    ELSE LET member == accs[1]
             multisig_account == accs[2]
             proposal_account == accs[3]
             mg == Multisig_get(st, multisig_account)
             pg == Proposal_get(st, proposal_account)
             ap == Proposal_approve(pg.val, mg.val, member)
             rest == Drop(accs, 4)
             st1 == [st EXCEPT ![proposal_account] = ap.val]
         IN IF member \notin signers
            THEN Fail("MissingRequiredSignature", st, <<>>)
            ELSE IF mg.err # "Ok" THEN Fail(mg.err, st, <<>>)
            ELSE IF pg.err # "Ok" THEN Fail(pg.err, st, <<>>)
            ELSE IF ap.err # "Ok" THEN Fail(ap.err, st, <<>>)
            ELSE IF try_execute
                    /\ Proposal_has_reached_threshold(ap.val, mg.val)
            THEN IF Len(rest) < 3 THEN Fail("NotEnoughAccountKeys", st, <<>>)
                 ELSE IF Proposal_get(st1, rest[3]).err # "Ok"
                 THEN Fail(Proposal_get(st1, rest[3]).err, st, <<>>)
                 ELSE IF Multisig_get(st1, rest[2]).err # "Ok"
                 THEN Fail(Multisig_get(st1, rest[2]).err, st, <<>>)
                 ELSE execute_actions(
                          [st1 EXCEPT ![rest[3]].executed = TRUE],
                          Multisig_get(st1, rest[2]).val, rest[3],
                          st1[rest[3]].actions, 1, Drop(rest, 3), signers,
                          height, <<>>)
            ELSE Done([st EXCEPT ![proposal_account] = ap.val], <<>>)

proposal_approve(st, accs, signers, try_execute, height) ==
    IF Len(accs) < 4 THEN Fail("NotEnoughAccountKeys", st, <<>>)
    ELSE LET member == accs[1]
             multisig_account == accs[2]
             proposal_account == accs[3]
             mg == Multisig_get(st, multisig_account)
             pg == Proposal_get(st, proposal_account)
             ap == Proposal_approve(pg.val, mg.val, member)
         IN IF member \notin signers
            THEN Fail("MissingRequiredSignature", st, <<>>)
            ELSE IF mg.err # "Ok" THEN Fail(mg.err, st, <<>>)
            ELSE IF pg.err # "Ok" THEN Fail(pg.err, st, <<>>)
            ELSE IF ap.err # "Ok" THEN Fail(ap.err, st, <<>>)
            ELSE IF try_execute
                    /\ Proposal_has_reached_threshold(ap.val, mg.val)
            THEN proposal_execute([st EXCEPT ![proposal_account] = ap.val],
                                  Drop(accs, 4), signers, height)
            ELSE Done([st EXCEPT ![proposal_account] = ap.val], <<>>)

\* lib.rs: process_instruction of the native program
process_instruction(st, data, accs, signers, height) ==
    CASE data.op = "Create" ->
           multisig_create(st, accs, signers, data.name, data.members,
                           data.threshold)
      [] data.op = "AddMember" ->
           multisig_add_member(st, accs, signers, data.member)
      [] data.op = "RemoveMember" ->
           multisig_remove_member(st, accs, signers, data.member)
      [] data.op = "ChangeThreshold" ->
           multisig_set_threshold(st, accs, signers, data.threshold)
      [] data.op = "CreateProposal" ->
           proposal_create(st, accs, signers, data.id, data.actions)
      [] data.op = "ExecuteProposal" ->
           proposal_execute(st, accs, signers, height)
      [] data.op = "Approve" ->
           proposal_approve(st, accs, signers, data.try_execute, height)
      [] OTHER -> Fail("InvalidInstructionData", st, <<>>)

\* ------------------------------- anchor-multisig: Multisig (multisig.rs)
AnchorMultisig_is_member(ms, member) == Contains(ms.members, member)

AnchorMultisig_update_threshold(ms, new_threshold) ==
    IF new_threshold > Len(ms.members) THEN Err("ThresholdTooHigh")
    ELSE IF new_threshold < 1 THEN Err("ThresholdTooLow")
    ELSE Ok([ms EXCEPT !.threshold = new_threshold])

AnchorMultisig_add_member(ms, member) ==
    IF AnchorMultisig_is_member(ms, member) THEN Err("AlreadyMember")
    ELSE Ok([ms EXCEPT !.members = Append(@, member)])

RECURSIVE anchor_add_members(_, _)
\* the loop of update_members: add_member for each, stopping at an error
anchor_add_members(m, new_members) ==
    IF m.err # "Ok" \/ new_members = <<>> THEN m
    ELSE anchor_add_members(AnchorMultisig_add_member(m.val, Head(new_members)),
                            Tail(new_members))

AnchorMultisig_update_members(ms, new_members) ==
    IF new_members = <<>> THEN Err("NoMembers")
    ELSE IF Len(new_members) < ms.threshold THEN Err("ThresholdTooHigh")
    ELSE anchor_add_members(Ok([ms EXCEPT !.members = <<>>]), new_members)

\* a remove_member that looks at the empty list before the threshold
AnchorRemoveEmptyFirst(ms, member) ==
    LET kept == Retain(ms.members, member) IN
    IF ~AnchorMultisig_is_member(ms, member) THEN Err("NotAMember")
    ELSE IF Len(kept) = 0 THEN Err("NoMembers")
    ELSE IF Len(kept) < ms.threshold THEN Err("ThresholdTooHigh")
    ELSE Ok([ms EXCEPT !.members = kept])

AnchorMultisig_remove_member(ms, member) ==
    LET kept == Retain(ms.members, member) IN
    IF ~AnchorMultisig_is_member(ms, member) THEN Err("NotAMember")
    ELSE IF Len(kept) < ms.threshold THEN Err("ThresholdTooHigh")
    ELSE IF Len(kept) = 0 THEN Err("NoMembers")
    ELSE Ok([ms EXCEPT !.members = kept])

\* ------------------------------- anchor-multisig: Proposal (proposal.rs)
\* struct Proposal { id, actions, executed, approvers, bump }: the Group is
\* not stored; it is the one whose address is a seed of the record's address
AnchorProposal_default ==
    [type |-> "proposal", id |-> 0, actions |-> <<>>, executed |-> FALSE,
     approvers |-> <<>>]

\* an approve that keeps only the latest approver
approve_replacing(p, signer) ==
    IF Contains(p.approvers, signer) THEN Err("AlreadyApproved")
    ELSE Ok([p EXCEPT !.approvers = <<signer>>])

AnchorProposal_approve(p, signer) ==
    IF Contains(p.approvers, signer) THEN Err("AlreadyApproved")
    ELSE Ok([p EXCEPT !.approvers = Append(@, signer)])

\* a check_executed that lets an executed proposal through: with it a batch
\* is dispatched again
NeverExecuted(p) == Ok(p)

AnchorProposal_check_executed(p) ==
    IF p.executed THEN Err("AlreadyExecuted") ELSE Ok(p)

AnchorProposal_check_threshold(p, ms) ==
    IF Len(p.approvers) < ms.threshold THEN Err("NotEnoughApprovals")
    ELSE Ok(p)

\* ---------------------------- anchor-multisig: account contexts (lib.rs)
\* Account<'info, T>: the record must exist and be of type T
AnchorAccount(st, account, type) ==
    LET d == Data(st, account) IN
    IF d.type = "none" THEN Err("AccountNotInitialized")
    ELSE IF d.type # type THEN Err("AccountDiscriminatorMismatch")
    ELSE Ok(d)

\* #[account(init, seeds = ..., payer = ...)]
AnchorInit(st, payer, signers, pda_key, account) ==
    IF account # pda_key THEN "ConstraintSeeds"
    ELSE IF Data(st, account).type # "none" THEN "AccountAlreadyInUse"
    ELSE IF payer \notin signers THEN "MissingRequiredSignature"
    ELSE "Ok"

\* the proposal of ApproveProposal and ExecuteProposal:
\* seeds = [b"proposal", multisig.key(), proposal.id]
AnchorProposalAccount(st, multisig_account, proposal_account) ==
    LET pg == AnchorAccount(st, proposal_account, "proposal") IN
    IF pg.err # "Ok" THEN pg
    ELSE IF ProposalPda(multisig_account, pg.val.id) # proposal_account
    THEN Err("ConstraintSeeds")
    ELSE pg

\* Multisig::execute: match the accounts, then call the target signed with
\* the seeds of `ms`
AnchorMultisig_execute(st, ms, action, accs, signers, height, ev) ==
    IF ~AccountsMatch(action, accs) THEN Fail("InvalidAccount", st, <<>>)
    ELSE LET r == Invoke(st, action.program_id, action.data, accs,
                         signers \cup {MultisigPda(ms.name)}, height + 1)
         IN [r EXCEPT !.log = <<ev>> \o @]

\* the loop of execute_proposal over proposal.actions, from action i on
anchor_execute_actions(st, ms, proposal_account, actions, i, accs, signers, height, log) ==
    IF i > Len(actions) THEN Done(st, log)
    ELSE LET n == Len(actions[i].accounts) IN
         IF Len(accs) < n THEN Fail("NotEnoughAccountKeys", st, log)
         ELSE LET r == AnchorMultisig_execute(st, ms, actions[i],
                           SubSeq(accs, 1, n), signers, height,
                           Event(MultisigPda(ms.name), proposal_account, i))
              IN IF r.err # "Ok" THEN [r EXCEPT !.log = log \o @]
                 ELSE anchor_execute_actions(r.st, ms, proposal_account,
                                             actions, i + 1, Drop(accs, n),
                                             signers, height, log \o r.log)

\* ------------------------------------ anchor-multisig: handlers (lib.rs)
anchor_create(st, accs, signers, name, members, threshold) ==
    IF Len(accs) < 2 THEN Fail("AccountNotEnoughKeys", st, <<>>)
    ELSE LET payer == accs[1]
             multisig_account == accs[2]
             c == AnchorInit(st, payer, signers, MultisigPda(name),
                             multisig_account)
             m == AnchorMultisig_update_members(
                      Multisig_new(name, <<>>, 0), members)
             t == AnchorMultisig_update_threshold(m.val, threshold)
         IN IF c # "Ok" THEN Fail(c, st, <<>>)
            ELSE IF m.err # "Ok" THEN Fail(m.err, st, <<>>)
            ELSE IF t.err # "Ok" THEN Fail(t.err, st, <<>>)
            ELSE Done([st EXCEPT ![multisig_account] = t.val], <<>>)

\* the contexts AddMember, RemoveMember and UpdateThreshold:
\* #[account(mut, signer)] multisig, changed by the handler, written at exit
AnchorMultisigUpdate(st, accs, signers, m) ==
    IF Len(accs) < 1 THEN Fail("AccountNotEnoughKeys", st, <<>>)
    ELSE IF AnchorAccount(st, accs[1], "multisig").err # "Ok"
    THEN Fail(AnchorAccount(st, accs[1], "multisig").err, st, <<>>)
    ELSE IF accs[1] \notin signers THEN Fail("ConstraintSigner", st, <<>>)
    ELSE IF m.err # "Ok" THEN Fail(m.err, st, <<>>)
    ELSE Done([st EXCEPT ![accs[1]] = m.val], <<>>)

anchor_add_member(st, accs, signers, member_to_add) ==
    AnchorMultisigUpdate(st, accs, signers,
        AnchorMultisig_add_member(Data(st, accs[1]), member_to_add))

anchor_remove_member(st, accs, signers, member_to_remove) ==
    AnchorMultisigUpdate(st, accs, signers,
        AnchorMultisig_remove_member(Data(st, accs[1]), member_to_remove))

anchor_update_threshold(st, accs, signers, new_threshold) ==
    AnchorMultisigUpdate(st, accs, signers,
        AnchorMultisig_update_threshold(Data(st, accs[1]), new_threshold))

anchor_create_proposal(st, accs, signers, id, actions) ==
    IF Len(accs) < 3 THEN Fail("AccountNotEnoughKeys", st, <<>>)
    ELSE LET signer == accs[1]
             multisig_account == accs[2]
             proposal_account == accs[3]
             mg == AnchorAccount(st, multisig_account, "multisig")
             c == AnchorInit(st, signer, signers,
                             ProposalPda(multisig_account, id),
                             proposal_account)
         IN IF signer \notin signers THEN Fail("AccountNotSigner", st, <<>>)
            ELSE IF mg.err # "Ok" THEN Fail(mg.err, st, <<>>)
            ELSE IF c # "Ok" THEN Fail(c, st, <<>>)
            ELSE IF ~AnchorMultisig_is_member(mg.val, signer)
            THEN Fail("NotAMember", st, <<>>)
            ELSE Done([st EXCEPT ![proposal_account] =
                          [AnchorProposal_default EXCEPT
                              !.id = id, !.actions = actions]], <<>>)

anchor_approve_proposal(st, accs, signers) ==
    IF Len(accs) < 3 THEN Fail("AccountNotEnoughKeys", st, <<>>)
    ELSE LET signer == accs[1]
             multisig_account == accs[2]
             proposal_account == accs[3]
             mg == AnchorAccount(st, multisig_account, "multisig")
             pd == AnchorAccount(st, proposal_account, "proposal")
             pg == AnchorProposalAccount(st, multisig_account,
                                         proposal_account)
             ap == AnchorProposal_approve(pg.val, signer)
         IN IF signer \notin signers THEN Fail("AccountNotSigner", st, <<>>)
            ELSE IF mg.err # "Ok" THEN Fail(mg.err, st, <<>>)
            ELSE IF pd.err # "Ok" THEN Fail(pd.err, st, <<>>)
            ELSE IF ~AnchorMultisig_is_member(mg.val, signer)
            THEN Fail("NotAMember", st, <<>>)
            ELSE IF pg.err # "Ok" THEN Fail(pg.err, st, <<>>)
            ELSE IF ap.err # "Ok" THEN Fail(ap.err, st, <<>>)
            ELSE Done([st EXCEPT ![proposal_account] = ap.val], <<>>)

\* execute_proposal works on the copy of the proposal deserialized on entry;
\* the record is written back from that copy when the handler returns Ok, so
\* the calls issued by the loop run against the record as it was on entry
anchor_execute_proposal(st, accs, signers, height) ==
    IF Len(accs) < 2 THEN Fail("AccountNotEnoughKeys", st, <<>>)
    ELSE LET multisig_account == accs[1]
             proposal_account == accs[2]
             mg == AnchorAccount(st, multisig_account, "multisig")
             pg == AnchorProposalAccount(st, multisig_account,
                                         proposal_account)
             proposal == [pg.val EXCEPT !.executed = TRUE]
             r == anchor_execute_actions(st, mg.val, proposal_account,
                      proposal.actions, 1, Drop(accs, 2), signers, height,
                      <<>>)
         IN IF mg.err # "Ok" THEN Fail(mg.err, st, <<>>)
            ELSE IF pg.err # "Ok" THEN Fail(pg.err, st, <<>>)
            ELSE IF AnchorProposal_check_executed(pg.val).err # "Ok"
            THEN Fail("AlreadyExecuted", st, <<>>)
            ELSE IF AnchorProposal_check_threshold(pg.val, mg.val).err # "Ok"
            THEN Fail("NotEnoughApprovals", st, <<>>)
            ELSE IF r.err # "Ok" THEN r
            ELSE [r EXCEPT !.st = [r.st EXCEPT ![proposal_account] = proposal]]

\* #[program] mod anchor_multisig: the instruction dispatch
anchor_multisig(st, data, accs, signers, height) ==
    CASE data.op = "create" ->
           anchor_create(st, accs, signers, data.name, data.members,
                         data.threshold)
      [] data.op = "add_member" ->
           anchor_add_member(st, accs, signers, data.member)
      [] data.op = "remove_member" ->
           anchor_remove_member(st, accs, signers, data.member)
      [] data.op = "update_threshold" ->
           anchor_update_threshold(st, accs, signers, data.threshold)
      [] data.op = "create_proposal" ->
           anchor_create_proposal(st, accs, signers, data.id, data.actions)
      [] data.op = "approve_proposal" ->
           anchor_approve_proposal(st, accs, signers)
      [] data.op = "execute_proposal" ->
           anchor_execute_proposal(st, accs, signers, height)
      [] OTHER -> Fail("InstructionFallbackNotFound", st, <<>>)

\* ------------------------------------------------------------- inputs
G1 == MultisigPda("g1")
G2 == MultisigPda("g2")
P1 == ProposalPda(G1, 0)
P2 == ProposalPda(G2, 0)

\* the member lists given to create: empty, single, repeated, two members
MemberLists ==
    {<<>>, <<User(1)>>, <<User(1), User(1)>>, <<User(1), User(2)>>,
     <<User(1), User(2), User(1)>>}

\* the arguments of create: any member list and threshold for the group g1;
\* g2 is the group of the single member User(2)
CreateInputs ==
    {[name |-> "g1", members |-> m, threshold |-> t] :
        m \in MemberLists, t \in 0..MaxThreshold}
    \cup {[name |-> "g2", members |-> <<User(2)>>, threshold |-> 1]}

\* instruction data, in the encoding of the program called
IxCreate(prog, name, members, threshold) ==
    [op |-> IF prog = "multisig" THEN "Create" ELSE "create",
     name |-> name, members |-> members, threshold |-> threshold]
IxAddMember(prog, member) ==
    [op |-> IF prog = "multisig" THEN "AddMember" ELSE "add_member",
     member |-> member]
IxRemoveMember(prog, member) ==
    [op |-> IF prog = "multisig" THEN "RemoveMember" ELSE "remove_member",
     member |-> member]
IxChangeThreshold(prog, threshold) ==
    [op |-> IF prog = "multisig" THEN "ChangeThreshold" ELSE "update_threshold",
     threshold |-> threshold]
IxCreateProposal(prog, id, actions) ==
    [op |-> IF prog = "multisig" THEN "CreateProposal" ELSE "create_proposal",
     id |-> id, actions |-> actions]
IxApprove(prog, try_execute) ==
    [op |-> IF prog = "multisig" THEN "Approve" ELSE "approve_proposal",
     try_execute |-> try_execute]
IxExecuteProposal(prog) ==
    [op |-> IF prog = "multisig" THEN "ExecuteProposal" ELSE "execute_proposal"]

\* the operand records of execute: the native program skips a leading signer
ExecuteAccounts(prog, caller, multisig, proposal, stream) ==
    (IF prog = "multisig" THEN <<caller>> ELSE <<>>)
        \o <<multisig, proposal>> \o stream

Action(program_id, accs, data) ==
    [program_id |-> program_id, accounts |-> accs, data |-> data]

\* the action batches proposals are created with
AddM2(prog) == <<Action(prog, <<G1>>, IxAddMember(prog, User(2)))>>
RemoveM1(prog) == <<Action(prog, <<G1>>, IxRemoveMember(prog, User(1)))>>
RaiseThreshold(prog) == <<Action(prog, <<G1>>, IxChangeThreshold(prog, 2))>>
\* a batch that changes the other group
AddM1ToG2(prog) == <<Action(prog, <<G2>>, IxAddMember(prog, User(1)))>>
\* a batch that executes the proposal it belongs to
ExecuteItself(prog) ==
    <<Action(prog, ExecuteAccounts(prog, User(1), G1, P1, <<>>),
             IxExecuteProposal(prog))>>
\* a batch that executes the proposal of the other group
ExecuteP2(prog) ==
    <<Action(prog, ExecuteAccounts(prog, User(1), G2, P2, <<G2>>),
             IxExecuteProposal(prog))>>

\* a batch whose second action fails after its first has taken effect:
\* once the threshold is 2, removing User(1) leaves too few members
RaiseThenRemoveM1(prog) == RaiseThreshold(prog) \o RemoveM1(prog)

\* a batch whose actions take slices of different lengths of the stream
AddM2ThenRaise(prog) ==
    AddM2(prog)
        \o <<Action(prog, <<G1, SystemProgram>>, IxChangeThreshold(prog, 2))>>

Batches(prog) ==
    {AddM2(prog), RemoveM1(prog), RaiseThreshold(prog), AddM1ToG2(prog),
     ExecuteItself(prog), ExecuteP2(prog), RaiseThenRemoveM1(prog),
     AddM2ThenRaise(prog)}

\* the arguments of create_proposal: any batch against g1, one against g2
ProposalInputs(prog) ==
    {[multisig |-> G1, actions |-> b] : b \in Batches(prog)}
    \cup {[multisig |-> G2, actions |-> AddM1ToG2(prog)]}

RECURSIVE Concat(_)
Concat(seqs) == IF seqs = <<>> THEN <<>> ELSE Head(seqs) \o Concat(Tail(seqs))

\* the account stream matching the actions of the proposal stored at p
Stream(st, p) ==
    IF Data(st, p).type # "proposal" THEN <<>>
    ELSE Concat([i \in 1..Len(st[p].actions) |-> st[p].actions[i].accounts])

\* the streams a caller supplies: the matching one, or one account short
Streams(st, p) ==
    LET s == Stream(st, p) IN {s, SubSeq(s, 1, Len(s) - 1)}

\* ---------------------------------------------------------------- state
VARIABLES
    program,    \* the program deployed: "multisig" or "anchor_multisig"
    accounts,   \* the records of the program, by address
    last,       \* the last successful invocation: instruction, calls issued
    dispatched  \* per proposal, how often its batch was dispatched (history)

vars == <<program, accounts, last, dispatched>>

Init ==
    /\ program \in Programs
    /\ accounts = [a \in Pdas |-> NoAccount]
    /\ last = [op |-> "none", log |-> <<>>]
    /\ dispatched = [p \in ProposalPdas |-> 0]

\* how often the log shows the batch of proposal p being started
BatchStarts(log, p) ==
    Cardinality({i \in 1..Len(log) : log[i].proposal = p /\ log[i].index = 1})

Min(a, b) == IF a < b THEN a ELSE b

\* the outcome of an instruction submitted to the deployed program in the
\* current state: its error code, the records it would write, the calls issued
Outcome(data, accs, signers) == Invoke(accounts, program, data, accs, signers, 1)

\* a host that applies the writes of a failed invocation too
SubmitPartial(data, accs, signers) ==
    LET r == Outcome(data, accs, signers) IN
    /\ accounts' = r.st
    /\ last' = IF r.err = "Ok" THEN [op |-> data.op, log |-> r.log] ELSE last
    /\ dispatched' = IF r.err = "Ok"
                     THEN [p \in ProposalPdas |->
                             Min(dispatched[p] + BatchStarts(r.log, p), MaxCount)]
                     ELSE dispatched
    /\ UNCHANGED program

\* the host runs the instruction and applies its writes only if it succeeds;
\* a failed invocation leaves no trace
Submit(data, accs, signers) ==
    LET r == Outcome(data, accs, signers) IN
    IF r.err = "Ok"
    THEN /\ accounts' = r.st
         /\ last' = [op |-> data.op, log |-> r.log]
         /\ dispatched' = [p \in ProposalPdas |->
                Min(dispatched[p] + BatchStarts(r.log, p), MaxCount)]
         /\ UNCHANGED program
    ELSE UNCHANGED vars

\* operand records of each instruction
CreateAccounts(payer, name) == <<payer, MultisigPda(name), SystemProgram>>
MultisigAccounts(multisig) == <<multisig, SystemProgram>>
ProposalAccounts(member, multisig, proposal) ==
    <<member, multisig, proposal, SystemProgram>>

Create ==
    /\ \E in \in CreateInputs :
         Submit(IxCreate(program, in.name, in.members, in.threshold),
                CreateAccounts(User(1), in.name), {User(1)})

\* the group-mutating instructions, submitted directly by a principal
AddMember ==
    /\ \E caller \in Users, multisig \in MultisigPdas, member \in Users :
         Submit(IxAddMember(program, member), MultisigAccounts(multisig),
                {caller})

RemoveMember ==
    /\ \E caller \in Users, multisig \in MultisigPdas, member \in Users :
         Submit(IxRemoveMember(program, member), MultisigAccounts(multisig),
                {caller})

ChangeThreshold ==
    /\ \E caller \in Users, multisig \in MultisigPdas,
          threshold \in 0..MaxThreshold :
         Submit(IxChangeThreshold(program, threshold),
                MultisigAccounts(multisig), {caller})

CreateProposal ==
    /\ \E member \in Users, in \in ProposalInputs(program),
          proposal \in ProposalPdas :
         Submit(IxCreateProposal(program, 0, in.actions),
                ProposalAccounts(member, in.multisig, proposal), {member})

\* approve without a chained execute
Approve ==
    /\ \E member \in Users, multisig \in MultisigPdas,
          proposal \in ProposalPdas :
         Submit(IxApprove(program, FALSE),
                ProposalAccounts(member, multisig, proposal), {member})

\* approve with try_execute: the operands of the chained execute follow the
\* first four (native program only; the Anchor program has no such flag)
ApproveAndExecute ==
    /\ program = "multisig"
    /\ \E member \in Users, multisig \in MultisigPdas,
          proposal \in ProposalPdas, multisig2 \in MultisigPdas,
          proposal2 \in ProposalPdas :
         Submit(IxApprove(program, TRUE),
                ProposalAccounts(member, multisig, proposal)
                    \o ExecuteAccounts(program, member, multisig2, proposal2,
                                       Stream(accounts, proposal2)),
                {member})

ExecuteProposal ==
    /\ \E caller \in Users, multisig \in MultisigPdas,
          proposal \in ProposalPdas :
         \E stream \in Streams(accounts, proposal) :
            Submit(IxExecuteProposal(program),
                   ExecuteAccounts(program, caller, multisig, proposal, stream),
                   {caller})

Next ==
    \/ Create
    \/ AddMember
    \/ RemoveMember
    \/ ChangeThreshold
    \/ CreateProposal
    \/ Approve
    \/ ApproveAndExecute
    \/ ExecuteProposal

Spec == Init /\ [][Next]_vars

\* ------------------------------------------------------- state queries
IsMultisig(st, a) == Data(st, a).type = "multisig"
IsProposal(st, a) == Data(st, a).type = "proposal"
IsExecuted(st, p) == IsProposal(st, p) /\ st[p].executed
Approvers(st, p) == IF IsProposal(st, p) THEN st[p].approvers ELSE <<>>

\* the Group a Proposal belongs to: the multisig whose address is a seed of
\* the proposal's address (and, in the native program, its stored `multisig`)
GroupOf(p) == MultisigPda(p[2])

IsMemberOf(st, g, who) == IsMultisig(st, g) /\ Contains(st[g].members, who)

\* ------------------------------------------------------------- claims

\* C1: a Proposal's executed flag becomes true only in a step in which the
\* number of its approvers is at least the threshold of the Group the
\* Proposal belongs to, whatever group record the caller supplies.
C1_ExecutedOnlyAtOwnThreshold ==
    [][\A p \in ProposalPdas :
          (IsExecuted(accounts', p) /\ ~IsExecuted(accounts, p))
          => /\ IsMultisig(accounts, GroupOf(p))
             /\ Len(accounts'[p].approvers)
                    >= accounts[GroupOf(p)].threshold]_vars

\* C2: approve adds to a Proposal's approvers only a principal who is, when
\* the approval is recorded, a member of the Group the Proposal belongs to,
\* whatever group record the caller supplies.
C2_ApproversAreMembersOfOwnGroup ==
    [][\A p \in ProposalPdas :
          (IsProposal(accounts, p) /\ accounts'[p].approvers # accounts[p].approvers)
          => \E a \in Users :
               /\ accounts'[p].approvers = Append(accounts[p].approvers, a)
               /\ IsMemberOf(accounts, GroupOf(p), a)]_vars

\* the outcome of execute on proposal p, supplied with the group `multisig`
ExecuteOutcome(caller, multisig, p, stream) ==
    Outcome(IxExecuteProposal(program),
            ExecuteAccounts(program, caller, multisig, p, stream), {caller})

\* the outcome of approve (without a chained execute) on proposal p by
\* `member`, supplied with the group `multisig`
ApproveOutcome(member, multisig, p) ==
    Outcome(IxApprove(program, FALSE), ProposalAccounts(member, multisig, p),
            {member})

\* C3: executed is false when a Proposal is created and never returns from
\* true to false, and over any sequence of invocations (approve with
\* try_execute and execute calls issued by a dispatched action included) the
\* batch of a Proposal is dispatched at most once: exactly once if the
\* Proposal is executed, never otherwise.
C3_ExecutedOnce ==
    /\ [](\A p \in ProposalPdas :
            dispatched[p] = IF IsExecuted(accounts, p) THEN 1 ELSE 0)
    /\ [][\A p \in ProposalPdas :
            /\ (~IsProposal(accounts, p) /\ IsProposal(accounts', p))
                  => ~accounts'[p].executed
            /\ IsExecuted(accounts, p) => IsExecuted(accounts', p)]_vars

\* both proposals are executed, the second by an execute call that the batch
\* of the first dispatched
C3_Witness ==
    /\ IsExecuted(accounts, P1) /\ IsExecuted(accounts, P2)
    /\ dispatched[P1] = 1 /\ dispatched[P2] = 1
    /\ Len(last.log) = 2
    /\ last.log[1].proposal = P1 /\ last.log[2].proposal = P2

\* C4: for every Group, 1 <= threshold <= len(members) after every successful
\* mutating operation (create, add_member, remove_member, change_threshold).
C4_ThresholdWithinMembers ==
    \A g \in MultisigPdas :
        IsMultisig(accounts, g)
        => /\ 1 <= accounts[g].threshold
           /\ accounts[g].threshold <= Len(accounts[g].members)

\* C5: after its creation a Group's record changes only in an invocation
\* that carries the Group's own authority, obtained through an action
\* dispatched by a Proposal that this invocation executes; add_member,
\* remove_member and change_threshold submitted directly by a principal,
\* member or not, fail.
C5_GroupChangedOnlyUnderOwnAuthority ==
    /\ [](\A caller \in Users, g \in MultisigPdas :
            /\ \A member \in Users :
                 /\ Outcome(IxAddMember(program, member),
                            MultisigAccounts(g), {caller}).err # "Ok"
                 /\ Outcome(IxRemoveMember(program, member),
                            MultisigAccounts(g), {caller}).err # "Ok"
            /\ \A threshold \in 0..MaxThreshold :
                 Outcome(IxChangeThreshold(program, threshold),
                         MultisigAccounts(g), {caller}).err # "Ok")
    /\ [][\A g \in MultisigPdas :
            (IsMultisig(accounts, g) /\ accounts'[g] # accounts[g])
            => \E i \in 1..Len(last'.log) :
                 /\ last'.log[i].authority = g
                 /\ ~IsExecuted(accounts, last'.log[i].proposal)
                 /\ IsExecuted(accounts', last'.log[i].proposal)]_vars

\* the group g1 has lost User(1), which only the batch RemoveM1 of its
\* executed proposal does
C5_Witness ==
    /\ IsMultisig(accounts, G1) /\ accounts[G1].members = <<User(2)>>
    /\ IsExecuted(accounts, P1)
    /\ Len(last.log) = 1 /\ last.log[1].authority = G1

\* C6: every action dispatched while executing a Proposal is issued under the
\* authority of the Group the Proposal belongs to.
C6_DispatchUnderOwnGroup ==
    \A i \in 1..Len(last.log) :
        last.log[i].authority = GroupOf(last.log[i].proposal)

\* C7: execute on an executed Proposal fails with AlreadyExecuted and
\* dispatches nothing, whatever the state of its Group.
C7_SecondExecuteAlreadyExecuted ==
    \A p \in ProposalPdas, caller \in Users :
        IsExecuted(accounts, p)
        => \A stream \in Streams(accounts, p) :
             LET r == ExecuteOutcome(caller, GroupOf(p), p, stream) IN
             r.err = "AlreadyExecuted" /\ r.log = <<>>

\* C8: execute on a not yet executed Proposal with fewer approvers than the
\* current threshold of its Group fails, with NotEnoughApprovals when the
\* Group's own record is supplied, and dispatches nothing.
C8_BelowThresholdNotExecuted ==
    \A p \in ProposalPdas, caller \in Users, multisig \in MultisigPdas :
        (/\ IsProposal(accounts, p) /\ ~IsExecuted(accounts, p)
         /\ IsMultisig(accounts, GroupOf(p))
         /\ Len(accounts[p].approvers) < accounts[GroupOf(p)].threshold)
        => \A stream \in Streams(accounts, p) :
             LET r == ExecuteOutcome(caller, multisig, p, stream) IN
             /\ r.err # "Ok"
             /\ r.log = <<>>
             /\ multisig = GroupOf(p) => r.err = "NotEnoughApprovals"

\* C9: approve by a principal who is not a member of the Proposal's Group at
\* the time of the call fails, with NotAMember when the Group's own record is
\* supplied.
C9_NonMemberCannotApprove ==
    \A p \in ProposalPdas, member \in Users, multisig \in MultisigPdas :
        (/\ IsProposal(accounts, p)
         /\ IsMultisig(accounts, GroupOf(p))
         /\ ~IsMemberOf(accounts, GroupOf(p), member))
        => LET r == ApproveOutcome(member, multisig, p) IN
           /\ r.err # "Ok"
           /\ multisig = GroupOf(p) => r.err = "NotAMember"

NoDuplicates(seq) ==
    \A i, j \in 1..Len(seq) : i # j => seq[i] # seq[j]

CreateProposalOutcome(member, multisig, proposal, actions) ==
    Outcome(IxCreateProposal(program, 0, actions),
            ProposalAccounts(member, multisig, proposal), {member})

\* C11: create_proposal by a principal who is not a current member of the
\* Group fails and creates nothing, with NotAMember (in the Anchor program the
\* creation of the record at an address that is taken or is not the derived
\* one reports its own error before the membership constraint); by a current
\* member, at the free derived address, it stores a Proposal with the given id
\* and actions, no approvers, executed = false, belonging to that Group.
C11_CreateProposalByMembersOnly ==
    \A member \in Users, in \in ProposalInputs(program),
       proposal \in ProposalPdas :
        LET r == CreateProposalOutcome(member, in.multisig, proposal,
                                       in.actions)
            init == AnchorInit(accounts, member, {member},
                               ProposalPda(in.multisig, 0), proposal)
        IN IsMultisig(accounts, in.multisig)
           => IF ~IsMemberOf(accounts, in.multisig, member)
              THEN \/ r.err = "NotAMember"
                   \/ /\ program = "anchor_multisig"
                      /\ init # "Ok" /\ r.err = init
              ELSE (proposal = ProposalPda(in.multisig, 0)
                    /\ ~IsProposal(accounts, proposal))
                   => /\ r.err = "Ok"
                      /\ r.st[proposal].id = 0
                      /\ r.st[proposal].actions = in.actions
                      /\ r.st[proposal].approvers = <<>>
                      /\ r.st[proposal].executed = FALSE
                      /\ GroupOf(proposal) = in.multisig
                      /\ program = "multisig"
                         => r.st[proposal].multisig = in.multisig
                      /\ \A a \in Pdas \ {proposal} : r.st[a] = accounts[a]

\* a proposal was just created for g1 while some principal is not a member
\* of g1 and is refused
C11_Witness ==
    /\ last.op = IxCreateProposal(program, 0, <<>>).op
    /\ IsProposal(accounts, P1) /\ accounts[P1].approvers = <<>>
    /\ ~IsProposal(accounts, P2) /\ IsMultisig(accounts, G2)
    /\ ~IsMemberOf(accounts, G2, User(1))
    /\ CreateProposalOutcome(User(1), G2, P2, AddM1ToG2(program)).err
          = "NotAMember"

\* the outcome of approve with try_execute by `member` on proposal p of the
\* group `multisig`, the chained execute being given the same group and
\* proposal and the accounts of the proposal's actions
ApproveAndExecuteOutcome(member, multisig, p) ==
    Outcome(IxApprove(program, TRUE),
            ProposalAccounts(member, multisig, p)
                \o ExecuteAccounts(program, member, multisig, p,
                                   Stream(accounts, p)),
            {member})

\* C12: approve with try_execute by a member who has not approved, on a not
\* yet executed proposal of the native program: if the approvals including
\* the new one reach the Group's threshold, a successful call records the
\* approval, sets executed and dispatches every action of the batch in the
\* same invocation (an AddMember(M2) batch on the group {threshold 1,
\* members [M1]} succeeds and leaves members [M1, M2]); if they do not, the
\* call succeeds, records the approval and dispatches nothing.
C12_ApproveAndExecute ==
    \A p \in ProposalPdas, member \in Users :
        LET g == GroupOf(p)
            r == ApproveAndExecuteOutcome(member, g, p)
        IN (/\ program = "multisig"
            /\ IsProposal(accounts, p) /\ ~IsExecuted(accounts, p)
            /\ IsMemberOf(accounts, g, member)
            /\ ~Contains(accounts[p].approvers, member))
           => IF Len(accounts[p].approvers) + 1 >= accounts[g].threshold
              THEN /\ r.err = "Ok"
                      => /\ r.st[p].approvers
                               = Append(accounts[p].approvers, member)
                         /\ r.st[p].executed
                         /\ \A i \in 1..Len(accounts[p].actions) :
                              \E j \in 1..Len(r.log) :
                                 r.log[j] = Event(g, p, i)
                   /\ (/\ accounts[p].actions = AddM2(program)
                       /\ accounts[g].members = <<User(1)>>
                       /\ accounts[g].threshold = 1)
                      => /\ r.err = "Ok"
                         /\ r.st[g].members = <<User(1), User(2)>>
              ELSE /\ r.err = "Ok"
                   /\ r.log = <<>>
                   /\ r.st = [accounts EXCEPT ![p].approvers
                                                 = Append(@, member)]

\* the group {threshold 1, members [M1]} has become [M1, M2] by M1's approve
\* with try_execute of its AddMember(M2) proposal
C12_Witness ==
    /\ program = "multisig" /\ last.op = "Approve"
    /\ last.log = <<Event(G1, P1, 1)>>
    /\ IsExecuted(accounts, P1) /\ accounts[P1].approvers = <<User(1)>>
    /\ accounts[P1].actions = AddM2(program)
    /\ accounts[G1].members = <<User(1), User(2)>>
    /\ accounts[G1].threshold = 1

RECURSIVE ApplyInOrder(_, _, _, _)
\* the actions of a batch invoked one after the other under the authority of
\* the group g, each on the store the previous one left: the final store, or
\* the error of the first action that fails
ApplyInOrder(st, g, signers, actions) ==
    IF actions = <<>> THEN [ok |-> TRUE, err |-> "Ok", st |-> st]
    ELSE LET a == Head(actions)
             r == Invoke(st, a.program_id, a.data, a.accounts,
                         signers \cup {g}, 2)
         IN IF r.err # "Ok" THEN [ok |-> FALSE, err |-> r.err, st |-> st]
            ELSE ApplyInOrder(r.st, g, signers, Tail(actions))

\* C13: executing a proposal is all-or-nothing.  An execute that passes its
\* checks succeeds exactly if every action of the batch, invoked in order,
\* succeeds, and then leaves the records all of them produced with executed
\* set; if an action fails the call fails with that action's error, also
\* when it is chained from approve, so that neither earlier actions nor the
\* executed flag nor the approval are recorded.  executed is never set in a
\* step that did not dispatch every action of the batch.
C13_AllOrNothing ==
    /\ [](\A p \in ProposalPdas, caller \in Users :
            LET g == GroupOf(p)
                native == program = "multisig"
                marked == [accounts EXCEPT ![p].executed = TRUE]
                exp == ApplyInOrder(IF native THEN marked ELSE accounts,
                                    g, {caller}, accounts[p].actions)
                r == ExecuteOutcome(caller, g, p, Stream(accounts, p))
            IN (/\ IsProposal(accounts, p) /\ ~IsExecuted(accounts, p)
                /\ IsMultisig(accounts, g)
                /\ Len(accounts[p].approvers) >= accounts[g].threshold)
               => IF exp.ok
                  THEN /\ r.err = "Ok"
                       /\ r.st = IF native THEN exp.st
                                 ELSE [exp.st EXCEPT ![p] = marked[p]]
                  ELSE r.err = exp.err)
    /\ [](\A p \in ProposalPdas, member \in Users :
            LET g == GroupOf(p)
                approved == [accounts EXCEPT
                                ![p].approvers = Append(@, member),
                                ![p].executed = TRUE]
                exp == ApplyInOrder(approved, g, {member},
                                    accounts[p].actions)
                r == ApproveAndExecuteOutcome(member, g, p)
            IN (/\ program = "multisig"
                /\ IsProposal(accounts, p) /\ ~IsExecuted(accounts, p)
                /\ IsMemberOf(accounts, g, member)
                /\ ~Contains(accounts[p].approvers, member)
                /\ Len(accounts[p].approvers) + 1 >= accounts[g].threshold)
               => IF exp.ok THEN r.err = "Ok" /\ r.st = exp.st
                  ELSE r.err = exp.err)
    /\ [][\A p \in ProposalPdas :
            (IsExecuted(accounts', p) /\ ~IsExecuted(accounts, p))
            => \A i \in 1..Len(accounts[p].actions) :
                 \E j \in 1..Len(last'.log) :
                    /\ last'.log[j].proposal = p
                    /\ last'.log[j].index = i]_vars

\* the proposal of g1 = {threshold 1, [M1, M2]} raises the threshold and then
\* removes M1; it has its approval, and executing it fails with the error of
\* the second action after the first has raised the threshold
C13_Witness ==
    /\ IsProposal(accounts, P1) /\ ~IsExecuted(accounts, P1)
    /\ accounts[P1].actions = RaiseThenRemoveM1(program)
    /\ accounts[P1].approvers = <<User(1)>>
    /\ accounts[G1].members = <<User(1), User(2)>>
    /\ accounts[G1].threshold = 1
    /\ LET r == ExecuteOutcome(User(1), G1, P1, Stream(accounts, P1)) IN
       /\ r.err = "ThresholdTooHigh"
       /\ Len(r.log) = 2
       /\ r.st[G1].threshold = 2

\* the scenario of C14: g1 = {threshold 1, members [M1]} with a not yet
\* executed proposal whose only action removes M1
SoleMemberRemoval ==
    /\ IsMultisig(accounts, G1)
    /\ accounts[G1].members = <<User(1)>> /\ accounts[G1].threshold = 1
    /\ IsProposal(accounts, P1) /\ ~IsExecuted(accounts, P1)
    /\ accounts[P1].actions = RemoveM1(program)

\* the error of removing the only member: the native remove_member tests
\* the empty set first, the Anchor one the threshold
SoleMemberError ==
    IF program = "multisig" THEN "NoMembers" ELSE "ThresholdTooHigh"

\* C14 (amended): for g1 = {threshold 1, members [M1]}, approving and
\* executing a proposal whose action removes M1 fails, with NoMembers in the
\* native program and with ThresholdTooHigh in the Anchor program; M1 stays
\* a member and the proposal is not executed.
C14_SoleMemberStays ==
    /\ [](SoleMemberRemoval
          => /\ accounts[P1].approvers = <<User(1)>>
                => \A caller \in Users :
                     ExecuteOutcome(caller, G1, P1, Stream(accounts, P1)).err
                        = SoleMemberError
             /\ (program = "multisig" /\ accounts[P1].approvers = <<>>)
                => ApproveAndExecuteOutcome(User(1), G1, P1).err
                      = SoleMemberError)
    /\ [][SoleMemberRemoval
          => /\ IsMemberOf(accounts', G1, User(1))
             /\ ~IsExecuted(accounts', P1)]_vars

\* M1, the only member of g1, has approved the proposal that removes M1,
\* and executing it is refused
C14_Witness ==
    /\ SoleMemberRemoval
    /\ accounts[P1].approvers = <<User(1)>>
    /\ last.op = IxApprove(program, FALSE).op
    /\ ExecuteOutcome(User(1), G1, P1, Stream(accounts, P1)).err
          = SoleMemberError

\* C14 as stated: the failure is NoMembers.
C14_SoleMemberNoMembers ==
    (SoleMemberRemoval /\ accounts[P1].approvers = <<User(1)>>)
    => ExecuteOutcome(User(1), G1, P1, Stream(accounts, P1)).err = "NoMembers"

\* the outcome of an instruction on the group g invoked under g's own
\* authority, as the batch of an executing proposal invokes it
GroupCallOutcome(g, data) ==
    Invoke(accounts, program, data, <<g>>, {g}, 2)

\* C15: remove_member of a current member that would leave a non-empty
\* member list shorter than the threshold fails with ThresholdTooHigh and
\* leaves the Group as it is.
C15_RemoveBelowThreshold ==
    \A g \in MultisigPdas, member \in Users :
        LET kept == Retain(accounts[g].members, member)
            r == GroupCallOutcome(g, IxRemoveMember(program, member))
        IN (/\ IsMemberOf(accounts, g, member)
            /\ Len(kept) > 0 /\ Len(kept) < accounts[g].threshold)
           => r.err = "ThresholdTooHigh" /\ r.st = accounts

\* g1 = {threshold 2, [M1, M2]} has a fully approved proposal that removes
\* M1, and executing it is refused with ThresholdTooHigh
C15_Witness ==
    /\ IsMultisig(accounts, G1)
    /\ accounts[G1].members = <<User(1), User(2)>>
    /\ accounts[G1].threshold = 2
    /\ IsProposal(accounts, P1) /\ accounts[P1].actions = RemoveM1(program)
    /\ Len(accounts[P1].approvers) = 2
    /\ GroupCallOutcome(G1, IxRemoveMember(program, User(1))).err
          = "ThresholdTooHigh"
    /\ ExecuteOutcome(User(1), G1, P1, Stream(accounts, P1)).err
          = "ThresholdTooHigh"

\* C16: update_threshold(new) fails with ThresholdTooHigh if new exceeds the
\* number of members and with ThresholdTooLow if new < 1, leaving the Group as
\* it is; otherwise it sets threshold = new and changes nothing else.
C16_UpdateThreshold ==
    \A g \in MultisigPdas, new \in 0..(MaxThreshold + 1) :
        LET r == GroupCallOutcome(g, IxChangeThreshold(program, new)) IN
        IsMultisig(accounts, g)
        => IF new > Len(accounts[g].members)
           THEN r.err = "ThresholdTooHigh" /\ r.st = accounts
           ELSE IF new < 1
           THEN r.err = "ThresholdTooLow" /\ r.st = accounts
           ELSE /\ r.err = "Ok"
                /\ r.st = [accounts EXCEPT ![g].threshold = new]

\* the threshold of g1 has been raised from 1 to 2 by its executed proposal;
\* 0 and 3 are refused
C16_Witness ==
    /\ IsExecuted(accounts, P1)
    /\ accounts[P1].actions = RaiseThreshold(program)
    /\ last.log = <<Event(G1, P1, 1)>>
    /\ accounts[G1].members = <<User(1), User(2)>>
    /\ accounts[G1].threshold = 2
    /\ GroupCallOutcome(G1, IxChangeThreshold(program, 0)).err
          = "ThresholdTooLow"
    /\ GroupCallOutcome(G1, IxChangeThreshold(program, 3)).err
          = "ThresholdTooHigh"

\* the outcome of create_group submitted by M1 with the input in
CreateOutcome(in) ==
    Outcome(IxCreate(program, in.name, in.members, in.threshold),
            CreateAccounts(User(1), in.name), {User(1)})

\* the distinct addresses of a list
Distinct(members) == {members[i] : i \in 1..Len(members)}

\* C17: create_group fails with NoMembers if the deduplicated member set is
\* empty, with ThresholdTooLow if the threshold is 0 and with
\* ThresholdTooHigh if the threshold exceeds the number of distinct members,
\* and then creates no record. (Where several of the errors apply, any of
\* them is accepted; for a list with a repeated address any failure is.)
C17_CreateValidates ==
    \A in \in CreateInputs :
        LET r == CreateOutcome(in)
            n == Cardinality(Distinct(in.members))
            errors == (IF n = 0 THEN {"NoMembers"} ELSE {})
                      \cup (IF in.threshold = 0 THEN {"ThresholdTooLow"}
                            ELSE {})
                      \cup (IF in.threshold > n THEN {"ThresholdTooHigh"}
                            ELSE {})
        IN (~IsMultisig(accounts, MultisigPda(in.name)) /\ errors # {})
           => /\ r.err # "Ok"
              /\ r.st = accounts
              /\ NoDuplicates(in.members) => r.err \in errors

\* C18 (as stated): add_member(addr) fails with AlreadyMember when addr is
\* already a member of the Group.
C18_AddMemberAlreadyMember ==
    \A g \in MultisigPdas, member \in Users :
        IsMemberOf(accounts, g, member)
        => GroupCallOutcome(g, IxAddMember(program, member)).err
              = "AlreadyMember"

\* C18 (amended): add_member(addr) of an address that is already a member
\* leaves the Group unchanged, failing with AlreadyMember in the Anchor
\* program and succeeding without effect in the native program; otherwise it
\* appends addr at the end of the member list and changes nothing else.
C18_AddMember ==
    \A g \in MultisigPdas, member \in Users :
        LET r == GroupCallOutcome(g, IxAddMember(program, member)) IN
        IsMultisig(accounts, g)
        => IF IsMemberOf(accounts, g, member)
           THEN /\ r.st = accounts
                /\ r.err = IF program = "multisig" THEN "Ok"
                           ELSE "AlreadyMember"
           ELSE /\ r.err = "Ok"
                /\ r.st = [accounts EXCEPT ![g].members = Append(@, member)]

\* M2 has been appended to g1 = [M1] by the executed proposal; adding M2
\* again changes nothing
C18_Witness ==
    /\ IsExecuted(accounts, P1) /\ accounts[P1].actions = AddM2(program)
    /\ last.log = <<Event(G1, P1, 1)>>
    /\ accounts[G1].members = <<User(1), User(2)>>
    /\ GroupCallOutcome(G1, IxAddMember(program, User(2))).st = accounts

\* C19: remove_member(addr) fails with NotAMember when addr is not a member
\* of the Group and leaves the Group as it is; otherwise, the checks of the
\* remaining list passing, it removes exactly addr and keeps the order of
\* the others. (Stated for the groups whose threshold is within 1 and the
\* number of members.)
C19_RemoveMember ==
    \A g \in MultisigPdas, member \in Users :
        LET r == GroupCallOutcome(g, IxRemoveMember(program, member))
            kept == Retain(accounts[g].members, member)
        IN (/\ IsMultisig(accounts, g)
            /\ accounts[g].threshold \in 1..Len(accounts[g].members))
           => IF ~IsMemberOf(accounts, g, member)
              THEN r.err = "NotAMember" /\ r.st = accounts
              ELSE r.err = "Ok"
                   => r.st = [accounts EXCEPT ![g].members = kept]

\* the position of the first occurrence of x in seq
FirstIndex(seq, x) ==
    CHOOSE i \in 1..Len(seq) : seq[i] = x /\ \A k \in 1..(i - 1) : seq[k] # x

\* C20: create_group with a member list that repeats an address (and a
\* threshold within the number of distinct addresses) succeeds and stores
\* the list deduplicated, each address at the position of its first
\* occurrence.
C20_CreateDeduplicates ==
    \A in \in CreateInputs :
        LET r == CreateOutcome(in)
            g == MultisigPda(in.name)
            stored == r.st[g].members
        IN (/\ ~IsMultisig(accounts, g)
            /\ ~NoDuplicates(in.members)
            /\ in.threshold \in 1..Cardinality(Distinct(in.members)))
           => /\ r.err = "Ok"
              /\ IsMultisig(r.st, g)
              /\ NoDuplicates(stored)
              /\ Distinct(stored) = Distinct(in.members)
              /\ \A i, j \in 1..Len(stored) :
                    i < j => FirstIndex(in.members, stored[i])
                                < FirstIndex(in.members, stored[j])

\* C21: in every reachable state, after any sequence of create, add_member
\* and remove_member operations, a Group's member list is non-empty and
\* holds no address twice.
C21_MembersNonEmptyNoDuplicates ==
    \A g \in MultisigPdas :
        IsMultisig(accounts, g)
        => accounts[g].members # <<>> /\ NoDuplicates(accounts[g].members)

\* C22: a Proposal is never changed after executed has become true: an
\* approve of an executed Proposal, by a member of its own Group and
\* supplied with that Group, leaves the approvers and every other field of
\* the Proposal as they are.
C22_ExecutedProposalFrozen ==
    \A member \in Users, p \in ProposalPdas :
        (IsExecuted(accounts, p) /\ IsMemberOf(accounts, GroupOf(p), member))
        => ApproveOutcome(member, GroupOf(p), p).st[p] = accounts[p]

\* the errors with which the two programs refuse to create a record at an
\* address that is already allocated (the spec's AlreadyExists)
AlreadyExists == {"AccountAlreadyInitialized", "AccountAlreadyInUse"}

\* C23: creating a Group whose name is in use, or (by a member) a Proposal
\* whose id is in use within the same Group, fails with AlreadyExists and
\* leaves every record as it is; the id of a Proposal of another Group does
\* not stand in the way.
C23_CreateAtUsedAddress ==
    /\ \A in \in CreateInputs :
          LET r == CreateOutcome(in) IN
          IsMultisig(accounts, MultisigPda(in.name))
          => r.err \in AlreadyExists /\ r.st = accounts
    /\ \A member \in Users, g \in MultisigPdas, b \in Batches(program) :
          LET r == CreateProposalOutcome(member, g, ProposalPda(g, 0), b) IN
          /\ IsProposal(accounts, ProposalPda(g, 0))
             => /\ r.err # "Ok" /\ r.st = accounts
                /\ IsMemberOf(accounts, g, member) => r.err \in AlreadyExists
          /\ (/\ ~IsProposal(accounts, ProposalPda(g, 0))
              /\ IsMemberOf(accounts, g, member))
             => r.err = "Ok"

\* both Groups hold a Proposal with id 0, and creating g1 or its Proposal 0
\* once more is refused
C23_Witness ==
    /\ IsProposal(accounts, P1) /\ accounts[P1].id = 0
    /\ IsProposal(accounts, P2) /\ accounts[P2].id = 0
    /\ IsMemberOf(accounts, G1, User(1))
    /\ CreateProposalOutcome(User(1), G1, P1, AddM2(program)).err
          \in AlreadyExists
    /\ CreateOutcome([name |-> "g1", members |-> <<User(1)>>,
                      threshold |-> 1]).err \in AlreadyExists

\* the errors with which the two programs refuse a supplied account that is
\* not the one the Action names (the spec's InvalidAccount)
InvalidAccount == {"InvalidAccountData", "InvalidAccount"}

\* an Action over two accounts, as the tests of the program build it
AddM2WithSystem(prog) ==
    Action(prog, <<G1, SystemProgram>>, IxAddMember(prog, User(2)))

\* the slices of two accounts a caller may supply for it
SuppliedAccounts == [1..2 -> {G1, G2, SystemProgram}]

\* the dispatch of `action` under the group g with the supplied accounts
DispatchOutcome(g, action, accs) ==
    IF program = "multisig"
    THEN Multisig_execute_action(accounts, accounts[g], action, accs, {}, 1,
                                 Event(g, ProposalPda(g, 0), 1))
    ELSE AnchorMultisig_execute(accounts, accounts[g], action, accs, {}, 1,
                                Event(g, ProposalPda(g, 0), 1))

\* C24: the dispatch of an Action fails with InvalidAccount when the supplied
\* accounts do not match the Action's accounts address by address in order;
\* a mismatch at any position aborts before the external call of that Action
\* is issued, and the dispatch changes nothing. An execute supplied with a
\* wrong account for the first Action of its batch fails in this way, with
\* no call issued.
C24_MismatchAbortsDispatch ==
    /\ \A g \in MultisigPdas, accs \in SuppliedAccounts :
          LET action == AddM2WithSystem(program)
              r == DispatchOutcome(g, action, accs)
          IN IsMultisig(accounts, g)
             => IF accs = action.accounts
                THEN r.log # <<>>
                ELSE /\ r.err \in InvalidAccount
                     /\ r.log = <<>>
                     /\ r.st = accounts
    /\ \A p \in ProposalPdas, wrong \in Pdas \cup Users :
          LET stream == Stream(accounts, p)
              r == ExecuteOutcome(User(1), GroupOf(p), p,
                                  [stream EXCEPT ![1] = wrong])
          IN (/\ IsProposal(accounts, p) /\ ~IsExecuted(accounts, p)
              /\ IsMultisig(accounts, GroupOf(p))
              /\ Len(accounts[p].approvers) >= accounts[GroupOf(p)].threshold
              /\ wrong # stream[1])
             => r.err \in InvalidAccount /\ r.log = <<>>

\* the approved proposal of g1 would execute with its own accounts, and is
\* refused with the other group's record in their place; a mismatch at the
\* second position of a two-account Action is refused too
C24_Witness ==
    /\ IsProposal(accounts, P1) /\ accounts[P1].actions = AddM2(program)
    /\ ~IsExecuted(accounts, P1)
    /\ ExecuteOutcome(User(1), G1, P1, <<G1>>).err = "Ok"
    /\ ExecuteOutcome(User(1), G1, P1, <<G2>>).err \in InvalidAccount
    /\ DispatchOutcome(G1, AddM2WithSystem(program), <<G1, G2>>).err
          \in InvalidAccount

\* the outcome of approve without try_execute by `member` on proposal p,
\* supplied with the group `multisig` and with `extra` accounts after the
\* four operands
PlainApproveOutcome(member, multisig, p, extra) ==
    Outcome(IxApprove(program, FALSE),
            ProposalAccounts(member, multisig, p) \o extra, {member})

\* C25: approve without the auto-execute flag only records the approval: it
\* issues no call and, where it succeeds, changes nothing but the approvers
\* of the Proposal (executed stays as it is), whether or not the new number
\* of approvals meets the threshold and whether or not the operands of an
\* execute are supplied; for a member of the Proposal's Group who has not
\* approved it succeeds.
C25_PlainApproveOnlyRecords ==
    \A member \in Users, g \in MultisigPdas, p \in ProposalPdas :
        \A extra \in {<<>>, ExecuteAccounts(program, member, g, p,
                                            Stream(accounts, p))} :
            LET r == PlainApproveOutcome(member, g, p, extra) IN
            /\ r.log = <<>>
            /\ r.err = "Ok"
               => r.st = [accounts EXCEPT
                             ![p].approvers = Append(@, member)]
            /\ (/\ g = GroupOf(p)
                /\ IsProposal(accounts, p)
                /\ IsMemberOf(accounts, g, member)
                /\ ~Contains(Approvers(accounts, p), member))
               => r.err = "Ok"

\* the last call was an approve that brought the Proposal of g1 to its
\* threshold; the Proposal is not executed and none of its actions has ever
\* been dispatched
C25_Witness ==
    /\ last.op = IxApprove(program, FALSE).op /\ last.log = <<>>
    /\ IsProposal(accounts, P1) /\ ~IsExecuted(accounts, P1)
    /\ accounts[G1].threshold >= 1
    /\ Len(accounts[P1].approvers) = accounts[G1].threshold
    /\ dispatched[P1] = 0

\* ======================================================== simple_token
\* The token program keeps a Config record {owner, decimals} at the address
\* derived from "config" and an Account record {balance: u64} per holder at
\* the address derived from the holder's key. u64 is scaled down to
\* 0..U64_MAX.
U64_MAX == 3
Amounts == 0..U64_MAX
Holders == Users \cup {<<"user", "", 3>>}

\* Pubkey::find_program_address([b"config"]) and ([user])
ConfigPda == <<"config", "", 0>>
UserPda(user) == <<"balance", "", user[3]>>
UserPdas == {UserPda(u) : u \in Holders}
TokenPdas == {ConfigPda} \cup UserPdas

Config(owner, decimals) ==
    [type |-> "config", owner |-> owner, decimals |-> decimals]
Account(balance) == [type |-> "account", balance |-> balance]

\* --------------------------------------------- simple_token: storage.rs
\* a remove that debits without comparing the balance (floored at zero)
remove_unchecked(amount, account) ==
    Ok(Account(IF account.balance < amount THEN 0
               ELSE account.balance - amount))

remove(amount, account) ==
    IF account.balance < amount THEN Err("InsufficientFunds")
    ELSE Ok(Account(account.balance - amount))

\* add is u64::checked_add; this one wraps around at the width of the balance
wrapping_add(amount, account) ==
    Ok(Account((account.balance + amount) % (U64_MAX + 1)))

add(amount, account) ==
    IF account.balance + amount > U64_MAX THEN Err("ArithmeticOverflow")
    ELSE Ok(Account(account.balance + amount))

\* verify_pda: the account is the one at the derived address (records are
\* owned by the program or, while absent, by the system program)
verify_pda(pda_key, pda) == IF pda_key # pda THEN "InvalidPda" ELSE "Ok"

\* a check_owner that asks for a signature only
check_owner_any_signer(st, owner, config_pda, signers) ==
    IF owner \notin signers THEN "InvalidOwner"
    ELSE IF verify_pda(ConfigPda, config_pda) # "Ok" THEN "InvalidPda"
    ELSE IF Data(st, config_pda).type # "config" THEN "BorshIoError"
    ELSE "Ok"

check_owner(st, owner, config_pda, signers) ==
    IF owner \notin signers THEN "InvalidOwner"
    ELSE IF verify_pda(ConfigPda, config_pda) # "Ok" THEN "InvalidPda"
    ELSE IF Data(st, config_pda).type # "config" THEN "BorshIoError"
    ELSE IF st[config_pda].owner # owner THEN "InvalidOwner"
    ELSE "Ok"

\* create_pda of simple_token: the system program's create_account is
\* unwrapped, so a payer that has not signed aborts the program
token_create_pda(st, payer, signers, pda) ==
    IF Data(st, pda).type # "none" THEN "AccountAlreadyInitialized"
    ELSE IF payer \notin signers THEN "Panic"
    ELSE "Ok"

\* create_user_pda where the record is absent: a zeroed Account
with_user_pda(st, user_pda) ==
    IF Data(st, user_pda).type = "none"
    THEN [st EXCEPT ![user_pda] = Account(0)]
    ELSE st

\* ------------------------------------------------- simple_token: lib.rs
initialize(st, accs, signers, owner, decimals) ==
    IF Len(accs) < 2 THEN Fail("Panic", st, <<>>)
    ELSE LET owner_info == accs[1]
             config_pda == accs[2]
             c == token_create_pda(st, owner_info, signers, config_pda)
         IN IF verify_pda(ConfigPda, config_pda) # "Ok"
            THEN Fail("InvalidPda", st, <<>>)
            ELSE IF c # "Ok" THEN Fail(c, st, <<>>)
            ELSE Done([st EXCEPT ![config_pda] = Config(owner, decimals)],
                      <<>>)

mint(st, accs, signers, to, amount) ==
    IF Len(accs) < 3 THEN Fail("Panic", st, <<>>)
    ELSE LET owner == accs[1]
             config_pda == accs[2]
             to_pda == accs[3]
             co == check_owner(st, owner, config_pda, signers)
             created == with_user_pda(st, to_pda)
             a == add(amount, created[to_pda])
         IN IF co # "Ok" THEN Fail(co, st, <<>>)
            ELSE IF verify_pda(UserPda(to), to_pda) # "Ok"
            THEN Fail("InvalidPda", st, <<>>)
            ELSE IF a.err # "Ok" THEN Fail(a.err, st, <<>>)
            ELSE Done([created EXCEPT ![to_pda] = a.val], <<>>)

transfer(st, accs, signers, to, amount) ==
    IF Len(accs) < 3 THEN Fail("Panic", st, <<>>)
    ELSE LET from == accs[1]
             from_pda == accs[2]
             to_pda == accs[3]
             created == with_user_pda(st, to_pda)
             r == remove(amount, created[from_pda])
             debited == [created EXCEPT ![from_pda] = r.val]
             a == add(amount, debited[to_pda])
         IN IF from \notin signers THEN Fail("InvalidSigner", st, <<>>)
            ELSE IF verify_pda(UserPda(from), from_pda) # "Ok"
            THEN Fail("InvalidPda", st, <<>>)
            ELSE IF verify_pda(UserPda(to), to_pda) # "Ok"
            THEN Fail("InvalidPda", st, <<>>)
            ELSE IF Data(st, from_pda).type = "none"
            THEN Fail("InsufficientFunds", st, <<>>)
            ELSE IF r.err # "Ok" THEN Fail(r.err, st, <<>>)
            ELSE IF a.err # "Ok" THEN Fail(a.err, st, <<>>)
            ELSE Done([debited EXCEPT ![to_pda] = a.val], <<>>)

burn(st, accs, signers, from_key, amount) ==
    IF Len(accs) < 3 THEN Fail("Panic", st, <<>>)
    ELSE LET owner == accs[1]
             config_pda == accs[2]
             from_pda == accs[3]
             co == check_owner(st, owner, config_pda, signers)
             r == remove(amount, st[from_pda])
         IN IF co # "Ok" THEN Fail(co, st, <<>>)
            ELSE IF verify_pda(UserPda(from_key), from_pda) # "Ok"
            THEN Fail("InvalidPda", st, <<>>)
            ELSE IF Data(st, from_pda).type = "none" THEN Done(st, <<>>)
            ELSE IF r.err # "Ok" THEN Fail(r.err, st, <<>>)
            ELSE Done([st EXCEPT ![from_pda] = r.val], <<>>)

change_owner(st, accs, signers, new_owner) ==
    IF Len(accs) < 2 THEN Fail("Panic", st, <<>>)
    ELSE LET owner == accs[1]
             config_pda == accs[2]
             co == check_owner(st, owner, config_pda, signers)
         IN IF co # "Ok" THEN Fail(co, st, <<>>)
            ELSE Done([st EXCEPT ![config_pda].owner = new_owner], <<>>)

\* process_instruction of simple_token
simple_token(st, data, accs, signers) ==
    CASE data.op = "Initialize" ->
           initialize(st, accs, signers, data.owner, data.decimals)
      [] data.op = "Mint" -> mint(st, accs, signers, data.to, data.amount)
      [] data.op = "Transfer" ->
           transfer(st, accs, signers, data.to, data.amount)
      [] data.op = "Burn" -> burn(st, accs, signers, data.from, data.amount)
      [] data.op = "ChangeOwner" ->
           change_owner(st, accs, signers, data.new_owner)
      [] OTHER -> Fail("InvalidInstructionData", st, <<>>)

\* ------------------------------------------- simple_token: instructions
IxInitialize(owner, decimals) ==
    [op |-> "Initialize", owner |-> owner, decimals |-> decimals]
IxMint(to, amount) == [op |-> "Mint", to |-> to, amount |-> amount]
IxTransfer(to, amount) == [op |-> "Transfer", to |-> to, amount |-> amount]
IxBurn(from, amount) == [op |-> "Burn", from |-> from, amount |-> amount]
IxChangeOwner(new_owner) == [op |-> "ChangeOwner", new_owner |-> new_owner]

\* the signatures of a transaction: the caller's, or none
Signatures(caller) == {{caller}, {}}
\* the record supplied as the config: the genuine one, or another record
ConfigOperands == {ConfigPda, UserPda(User(1))}

\* the state of the token program before its first instruction
TokenInit ==
    /\ program = "simple_token"
    /\ accounts = [a \in TokenPdas |-> NoAccount]
    /\ last = [op |-> "none", log |-> <<>>]
    /\ dispatched = [p \in ProposalPdas |-> 0]

\* the outcome of an instruction submitted to the token program in the
\* current state
TokenOutcome(data, accs, signers) == simple_token(accounts, data, accs, signers)

\* the host applies the records of a successful instruction and nothing of a
\* failed one
TokenSubmit(data, accs, signers) ==
    LET r == TokenOutcome(data, accs, signers) IN
    IF r.err = "Ok"
    THEN /\ accounts' = r.st
         /\ last' = [op |-> data.op, log |-> <<>>]
         /\ UNCHANGED <<program, dispatched>>
    ELSE UNCHANGED vars

Initialize ==
    \E payer \in Holders, owner \in Holders, config_pda \in ConfigOperands :
        \E signers \in Signatures(payer) :
            TokenSubmit(IxInitialize(owner, 9), <<payer, config_pda>>, signers)

Mint ==
    \E caller \in Holders, to \in Holders, to_pda \in UserPdas,
       config_pda \in ConfigOperands, amount \in Amounts :
        \E signers \in Signatures(caller) :
            TokenSubmit(IxMint(to, amount), <<caller, config_pda, to_pda>>,
                        signers)

Transfer ==
    \E from \in Holders, from_pda \in UserPdas, to \in Holders,
       to_pda \in UserPdas, amount \in Amounts :
        \E signers \in Signatures(from) :
            TokenSubmit(IxTransfer(to, amount), <<from, from_pda, to_pda>>,
                        signers)

Burn ==
    \E caller \in Holders, from \in Holders, from_pda \in UserPdas,
       config_pda \in ConfigOperands, amount \in Amounts :
        \E signers \in Signatures(caller) :
            TokenSubmit(IxBurn(from, amount), <<caller, config_pda, from_pda>>,
                        signers)

ChangeOwner ==
    \E caller \in Holders, new_owner \in Holders,
       config_pda \in ConfigOperands :
        \E signers \in Signatures(caller) :
            TokenSubmit(IxChangeOwner(new_owner), <<caller, config_pda>>,
                        signers)

TokenNext ==
    \/ Initialize
    \/ Mint
    \/ Transfer
    \/ Burn
    \/ ChangeOwner

TokenSpec == TokenInit /\ [][TokenNext]_vars

\* ------------------------------------------- simple_token: state queries
HasBalance(st, user) == Data(st, UserPda(user)).type = "account"
\* the balance of a holder; a holder without a record holds nothing
Balance(st, user) == IF HasBalance(st, user) THEN st[UserPda(user)].balance ELSE 0
RECURSIVE SumOver(_, _)
SumOver(st, users) ==
    IF users = {} THEN 0
    ELSE LET u == CHOOSE x \in users : TRUE
         IN Balance(st, u) + SumOver(st, users \ {u})
\* the sum of all balances
Supply(st) == SumOver(st, Holders)
IsInitialized(st) == Data(st, ConfigPda).type = "config"

\* --------------------------------------------- simple_token: the claims
\* the outcomes of the instructions with the records of the named holders
TransferOutcome(from, signers, to, amount) ==
    TokenOutcome(IxTransfer(to, amount),
                 <<from, UserPda(from), UserPda(to)>>, signers)
MintOutcome(caller, signers, config_pda, to, amount) ==
    TokenOutcome(IxMint(to, amount), <<caller, config_pda, UserPda(to)>>,
                 signers)
BurnOutcome(caller, signers, config_pda, from, amount) ==
    TokenOutcome(IxBurn(from, amount), <<caller, config_pda, UserPda(from)>>,
                 signers)
ChangeOwnerOutcome(caller, signers, config_pda, new_owner) ==
    TokenOutcome(IxChangeOwner(new_owner), <<caller, config_pda>>, signers)

\* the records other than those of the holders in `users` are as before
OthersUnchanged(st, users) ==
    \A a \in TokenPdas \ {UserPda(u) : u \in users} : st[a] = accounts[a]

\* C26 (as stated): a transfer or burn with amount greater than the debited
\* balance (a holder without a record holds nothing) fails with
\* InsufficientFunds.
C26_DebitBeyondBalanceFails ==
    \A from \in Holders, to \in Holders, amount \in Amounts :
        (IsInitialized(accounts) /\ amount > Balance(accounts, from))
        => /\ TransferOutcome(from, {from}, to, amount).err
                 = "InsufficientFunds"
           /\ LET owner == accounts[ConfigPda].owner IN
              BurnOutcome(owner, {owner}, ConfigPda, from, amount).err
                 = "InsufficientFunds"

\* the state part of the amended C26
C26_TransferAndBurnDebit ==
    /\ \A from \in Holders, to \in Holders, amount \in Amounts :
          LET r == TransferOutcome(from, {from}, to, amount) IN
          IF ~HasBalance(accounts, from) \/ amount > Balance(accounts, from)
          THEN r.err = "InsufficientFunds" /\ r.st = accounts
          ELSE /\ (from = to \/ Balance(accounts, to) + amount <= U64_MAX)
                  => r.err = "Ok"
               /\ r.err = "Ok"
                  => /\ Supply(r.st) = Supply(accounts)
                     /\ HasBalance(r.st, to)
                     /\ OthersUnchanged(r.st, {from, to})
                     /\ IF from = to
                        THEN Balance(r.st, from) = Balance(accounts, from)
                        ELSE /\ Balance(r.st, from)
                                   = Balance(accounts, from) - amount
                             /\ Balance(r.st, to)
                                   = Balance(accounts, to) + amount
    /\ \A from \in Holders, amount \in Amounts :
          LET owner == accounts[ConfigPda].owner
              r == BurnOutcome(owner, {owner}, ConfigPda, from, amount)
          IN IsInitialized(accounts)
             => IF ~HasBalance(accounts, from)
                THEN r.err = "Ok" /\ r.st = accounts
                ELSE IF amount > Balance(accounts, from)
                THEN r.err = "InsufficientFunds" /\ r.st = accounts
                ELSE /\ r.err = "Ok"
                     /\ Balance(r.st, from) = Balance(accounts, from) - amount
                     /\ OthersUnchanged(r.st, {from})

\* C26 (amended): a transfer of amount by a signing holder decreases the
\* sender's balance by amount and increases the recipient's by amount, so
\* that no transfer changes the sum of all balances; a transfer with amount
\* greater than the sender's balance, or from a sender without a record,
\* and a burn with amount greater than the balance of an existing record
\* fail with InsufficientFunds and change nothing; a burn from a holder
\* without a record succeeds and changes nothing.
C26_TransferConservesSupply ==
    /\ []C26_TransferAndBurnDebit
    /\ [][last'.op = "Transfer" => Supply(accounts') = Supply(accounts)]_vars

\* the last instruction was a transfer that left M1 with 1 and M2 with 2;
\* M1 cannot send 2
C26_Witness ==
    /\ last.op = "Transfer"
    /\ HasBalance(accounts, User(1)) /\ Balance(accounts, User(1)) = 1
    /\ HasBalance(accounts, User(2)) /\ Balance(accounts, User(2)) = 2
    /\ TransferOutcome(User(1), {User(1)}, User(2), 2).err
          = "InsufficientFunds"
    /\ TransferOutcome(User(1), {User(1)}, User(2), 1).err = "Ok"

\* whether the caller has signed and is the owner stored in the config
IsOwnerSigner(st, caller, signers) ==
    caller \in signers /\ IsInitialized(st) /\ st[ConfigPda].owner = caller

\* an instruction reserved to the owner: it succeeds only for the signing
\* owner with the genuine config; any other caller fails, with InvalidOwner
\* where the config supplied is the genuine one, and changes nothing
OwnerOnly(r, caller, signers, config_pda) ==
    /\ r.err = "Ok"
       => IsOwnerSigner(accounts, caller, signers) /\ config_pda = ConfigPda
    /\ ~IsOwnerSigner(accounts, caller, signers)
       => /\ r.err # "Ok"
          /\ r.st = accounts
          /\ (IsInitialized(accounts) /\ config_pda = ConfigPda)
             => r.err = "InvalidOwner"

\* the state part of C27
C27_OwnerOnlyInstructions ==
    \A caller \in Holders, target \in Holders, config_pda \in ConfigOperands,
       amount \in Amounts :
        \A signers \in Signatures(caller) :
            LET m == MintOutcome(caller, signers, config_pda, target, amount)
                b == BurnOutcome(caller, signers, config_pda, target, amount)
                c == ChangeOwnerOutcome(caller, signers, config_pda, target)
            IN /\ OwnerOnly(m, caller, signers, config_pda)
               /\ OwnerOnly(b, caller, signers, config_pda)
               /\ OwnerOnly(c, caller, signers, config_pda)
               /\ (/\ IsOwnerSigner(accounts, caller, signers)
                   /\ config_pda = ConfigPda)
                  => /\ c.err = "Ok"
                     /\ c.st = [accounts EXCEPT ![ConfigPda].owner = target]

\* C27: in simple_token, mint, burn and change_owner succeed only when
\* invoked by a signer equal to the owner currently stored in the config;
\* any other caller fails with InvalidOwner and changes no balance and no
\* field of the config; after a successful change_owner to another address
\* the previous owner is rejected and the new owner accepted.
C27_OnlyTheStoredOwner ==
    /\ []C27_OwnerOnlyInstructions
    /\ [][(last'.op = "ChangeOwner" /\ accounts' # accounts)
          => LET old == accounts[ConfigPda].owner
                 new == accounts'[ConfigPda].owner
             IN /\ simple_token(accounts', IxMint(old, 0),
                                <<old, ConfigPda, UserPda(old)>>, {old}).err
                      = "InvalidOwner"
                /\ simple_token(accounts', IxChangeOwner(old),
                                <<old, ConfigPda>>, {old}).err
                      = "InvalidOwner"
                /\ simple_token(accounts', IxMint(new, 0),
                                <<new, ConfigPda, UserPda(new)>>, {new}).err
                      = "Ok"]_vars

\* the owner has just been changed to M2: M1, who holds tokens, can no
\* longer mint or burn, M2 can
C27_Witness ==
    /\ last.op = "ChangeOwner"
    /\ IsInitialized(accounts) /\ accounts[ConfigPda].owner = User(2)
    /\ Balance(accounts, User(1)) = 1
    /\ MintOutcome(User(1), {User(1)}, ConfigPda, User(1), 1).err
          = "InvalidOwner"
    /\ BurnOutcome(User(1), {User(1)}, ConfigPda, User(1), 1).err
          = "InvalidOwner"
    /\ MintOutcome(User(2), {User(2)}, ConfigPda, User(1), 1).err = "Ok"
    /\ BurnOutcome(User(2), {User(2)}, ConfigPda, User(1), 1).err = "Ok"

\* the state part of C28
C28_OverflowRefused ==
    /\ \A a \in UserPdas :
          accounts[a].type = "account" => accounts[a].balance \in 0..U64_MAX
    /\ \A to \in Holders, amount \in Amounts :
          LET owner == accounts[ConfigPda].owner
              r == MintOutcome(owner, {owner}, ConfigPda, to, amount)
          IN IsInitialized(accounts)
             => IF Balance(accounts, to) + amount > U64_MAX
                THEN r.err = "ArithmeticOverflow" /\ r.st = accounts
                ELSE /\ r.err = "Ok"
                     /\ Balance(r.st, to) = Balance(accounts, to) + amount
    /\ \A from \in Holders, to \in Holders, amount \in Amounts :
          LET r == TransferOutcome(from, {from}, to, amount) IN
          (/\ HasBalance(accounts, from) /\ amount <= Balance(accounts, from)
           /\ from # to
           /\ Balance(accounts, to) + amount > U64_MAX)
          => /\ r.err = "ArithmeticOverflow"
             /\ r.st = accounts
             /\ Balance(r.st, from) = Balance(accounts, from)

\* C28: in simple_token a mint or transfer that would raise the recipient's
\* balance above the maximum unsigned value of its width fails with
\* ArithmeticOverflow; no balance wraps around (no mint and no transfer
\* lowers the recipient's balance or the sum of all balances), and after a
\* failed transfer the sender's balance is not debited.
C28_NoBalanceWraps ==
    /\ []C28_OverflowRefused
    /\ [][/\ last'.op = "Mint"
             => /\ Supply(accounts') >= Supply(accounts)
                /\ \A u \in Holders :
                      Balance(accounts', u) >= Balance(accounts, u)
          /\ last'.op = "Transfer"
             => Supply(accounts') = Supply(accounts)]_vars

\* M1 holds the maximum and M2 holds 1: neither a mint to M1 nor a transfer
\* from M2 to M1 goes through, and M2 keeps its token
C28_Witness ==
    /\ IsInitialized(accounts)
    /\ HasBalance(accounts, User(1))
    /\ Balance(accounts, User(1)) = U64_MAX
    /\ Balance(accounts, User(2)) = 1
    /\ MintOutcome(accounts[ConfigPda].owner, {accounts[ConfigPda].owner},
                   ConfigPda, User(1), 1).err = "ArithmeticOverflow"
    /\ TransferOutcome(User(2), {User(2)}, User(1), 1).err
          = "ArithmeticOverflow"
    /\ TransferOutcome(User(2), {User(2)}, User(1), 1).st = accounts

\* C29: execute makes executed = true visible in the stored Proposal before
\* it dispatches the first action: an execute of the same Proposal issued
\* from inside one of its own dispatched actions fails with AlreadyExecuted
\* and dispatches nothing, so the outer execute ends with that error after
\* the one call it issued.
C29_ReentrantExecuteRefused ==
    LET r == ExecuteOutcome(User(1), G1, P1, Stream(accounts, P1)) IN
    (/\ IsMultisig(accounts, G1) /\ IsProposal(accounts, P1)
     /\ accounts[P1].actions = ExecuteItself(program)
     /\ ~IsExecuted(accounts, P1)
     /\ accounts[G1].threshold >= 1
     /\ Len(accounts[P1].approvers) >= accounts[G1].threshold)
    => r.err = "AlreadyExecuted" /\ r.log = <<Event(G1, P1, 1)>>

\* C30 (as stated): in remove_member the NoMembers condition is checked after
\* the ThresholdTooHigh condition: a removal of a member that leaves fewer
\* members than the threshold fails with ThresholdTooHigh, and NoMembers is
\* reported only when the threshold condition did not fire.
C30_ThresholdCheckedFirst ==
    \A g \in MultisigPdas, member \in Users :
        LET kept == Retain(accounts[g].members, member)
            r == GroupCallOutcome(g, IxRemoveMember(program, member))
        IN IsMemberOf(accounts, g, member)
           => /\ Len(kept) < accounts[g].threshold
                 => r.err = "ThresholdTooHigh"
              /\ r.err = "NoMembers" => Len(kept) >= accounts[g].threshold

\* C30 (amended): the Anchor remove_member checks ThresholdTooHigh before
\* NoMembers, so a removal that leaves fewer members than the threshold
\* fails with ThresholdTooHigh even when it empties the list; the native
\* remove_member checks NoMembers first, so a removal that empties the list
\* fails with NoMembers and ThresholdTooHigh is reported only for a
\* non-empty remaining list shorter than the threshold.
C30_RemoveMemberCheckOrder ==
    \A g \in MultisigPdas, member \in Users :
        LET kept == Retain(accounts[g].members, member)
            r == GroupCallOutcome(g, IxRemoveMember(program, member))
        IN IsMemberOf(accounts, g, member)
           => IF program = "anchor_multisig"
              THEN /\ Len(kept) < accounts[g].threshold
                      => r.err = "ThresholdTooHigh"
                   /\ r.err = "NoMembers"
                      => Len(kept) = 0 /\ accounts[g].threshold = 0
              ELSE /\ Len(kept) = 0 => r.err = "NoMembers"
                   /\ (Len(kept) > 0 /\ Len(kept) < accounts[g].threshold)
                      => r.err = "ThresholdTooHigh"
                   /\ r.err = "ThresholdTooHigh" => Len(kept) > 0

\* the last call was M1's approval of the removal of M1 from
\* g1 = {threshold 1, [M1]}: both conditions hold for the removal, and the
\* program reports the one it checks first
C30_Witness ==
    /\ last.op = IxApprove(program, FALSE).op
    /\ IsMultisig(accounts, G1)
    /\ accounts[G1].members = <<User(1)>> /\ accounts[G1].threshold = 1
    /\ IsProposal(accounts, P1) /\ accounts[P1].actions = RemoveM1(program)
    /\ accounts[P1].approvers = <<User(1)>>
    /\ GroupCallOutcome(G1, IxRemoveMember(program, User(1))).err
          = (IF program = "multisig" THEN "NoMembers"
             ELSE "ThresholdTooHigh")

\* ------------------------------------------------- multisig: the claims
RECURSIVE ParameterCount(_, _)
\* the sum of the numbers of accounts of the first k actions of a batch
ParameterCount(actions, k) ==
    IF k = 0 THEN 0
    ELSE ParameterCount(actions, k - 1) + Len(actions[k].accounts)

\* the calls a log shows for the batch of proposal p
CallsOf(log, p) == SelectSeq(log, LAMBDA e : e.proposal = p)

\* the state part of C31
C31_SlicesInOrder ==
    \A p \in ProposalPdas, caller \in Users :
        \A stream \in Streams(accounts, p) :
            LET g == GroupOf(p)
                actions == accounts[p].actions
                n == Len(actions)
                native == program = "multisig"
                marked == [accounts EXCEPT ![p].executed = TRUE]
                exp == ApplyInOrder(IF native THEN marked ELSE accounts,
                                    g, {caller}, actions)
                r == ExecuteOutcome(caller, g, p, stream)
            IN (IsProposal(accounts, p) /\ IsMultisig(accounts, g))
               => /\ r.err = "Ok"
                     => /\ CallsOf(r.log, p)
                              = [i \in 1..n |-> Event(g, p, i)]
                        /\ \A i \in 1..n :
                              SubSeq(stream,
                                     ParameterCount(actions, i - 1) + 1,
                                     ParameterCount(actions, i))
                                 = actions[i].accounts
                  /\ Len(stream) < ParameterCount(actions, n) => r.err # "Ok"
                  /\ (/\ ~IsExecuted(accounts, p)
                      /\ Len(accounts[p].approvers) >= accounts[g].threshold
                      /\ stream = Stream(accounts, p)
                      /\ exp.ok)
                     => r.err = "Ok"

\* C31: a successful execute issues exactly len(actions) dispatches in list
\* order, and action i receives the contiguous slice of the supplied account
\* stream that starts at the sum of the numbers of accounts of the actions
\* before it and has the length of its own account list (an execute supplied
\* with the accounts of its actions one after the other succeeds if every
\* action does); if the stream is too short for some action the execution
\* fails.
C31_DispatchesInOrder ==
    /\ []C31_SlicesInOrder
    /\ [][\A p \in ProposalPdas :
            (IsExecuted(accounts', p) /\ ~IsExecuted(accounts, p))
            => \E g \in MultisigPdas :
                  CallsOf(last'.log, p)
                     = [i \in 1..Len(accounts[p].actions) |->
                           Event(g, p, i)]]_vars

\* the two actions of the proposal of g1, which take one and two accounts
\* of the stream, have both been dispatched, in order
C31_Witness ==
    /\ IsExecuted(accounts, P1)
    /\ accounts[P1].actions = AddM2ThenRaise(program)
    /\ last.log = <<Event(G1, P1, 1), Event(G1, P1, 2)>>
    /\ accounts[G1].members = <<User(1), User(2)>>
    /\ accounts[G1].threshold = 2

\* ------------------------------------------------ record layout and sizes
\* Borsh: integers little-endian, a Vec as a 4-byte length and its items, a
\* struct as its fields one after the other.  A byte of an address or of
\* an Anchor tag is kept symbolic.
Bytes(n, b) == [i \in 1..n |-> <<b, i>>]
RECURSIVE LittleEndian(_, _)
\* the k low bytes of n, lowest first
LittleEndian(n, k) ==
    IF k = 0 THEN <<>> ELSE <<n % 256>> \o LittleEndian(n \div 256, k - 1)
U8(n) == LittleEndian(n, 1)
U32(n) == LittleEndian(n, 4)
U64(n) == LittleEndian(n, 8)
Bool(b) == <<IF b THEN 1 ELSE 0>>

\* mem::size_of::<Pubkey>()
PubkeySize == 32
PubkeyBytes(a) == Bytes(PubkeySize, a)

RECURSIVE Flatten(_)
Flatten(items) ==
    IF items = <<>> THEN <<>> ELSE Head(items) \o Flatten(Tail(items))

\* Vec<T>, from the encodings of its items
Vec(items) == U32(Len(items)) \o Flatten(items)

RECURSIVE Sum(_)
Sum(ns) == IF ns = <<>> THEN 0 ELSE Head(ns) + Sum(Tail(ns))

\* the bytes of a group name
NameBytes(name) == IF name = "g1" THEN <<103, 49>> ELSE <<103, 50>>

\* the name and the description that the tests create every proposal with
\* (b"test", b"test description"); the native Proposal stores both
ProposalName == <<116, 101, 115, 116>>
ProposalDescription ==
    ProposalName \o <<32, 100, 101, 115, 99, 114, 105, 112, 116, 105, 111, 110>>

\* the position of an instruction in the native enum Instruction
Variant(op) ==
    CASE op = "Create" -> 0
      [] op = "AddMember" -> 1
      [] op = "RemoveMember" -> 2
      [] op = "Approve" -> 3
      [] op = "CreateProposal" -> 4
      [] op = "ExecuteProposal" -> 5
      [] op = "ChangeThreshold" -> 6

\* the arguments of the instructions that the batches of the model carry
ArgumentBytes(data) ==
    IF data.op \in {"AddMember", "add_member", "RemoveMember", "remove_member"}
    THEN PubkeyBytes(data.member)
    ELSE IF data.op \in {"ChangeThreshold", "update_threshold"}
    THEN U64(data.threshold)
    ELSE IF data.op \in {"Approve", "approve_proposal"}
    THEN Bool(data.try_execute)
    ELSE <<>>

\* the payload of an Action: the instruction as its program decodes it, a
\* variant byte (native) or an 8-byte method tag (Anchor) and the arguments
InstructionBytes(prog, data) ==
    (IF prog = "multisig" THEN U8(Variant(data.op)) ELSE Bytes(8, data.op))
        \o ArgumentBytes(data)

\* native Action { program_id, accounts: Vec<Pubkey>, data: Vec<u8> }
Action_bytes(action) ==
    PubkeyBytes(action.program_id)
        \o Vec([i \in 1..Len(action.accounts) |->
                   PubkeyBytes(action.accounts[i])])
        \o Vec([i \in 1..Len(InstructionBytes("multisig", action.data)) |->
                   <<InstructionBytes("multisig", action.data)[i]>>])

Action_size(action) ==
    LET program_id_size == PubkeySize
        accounts_size == Len(action.accounts) * PubkeySize + 4
        data_size == Len(InstructionBytes("multisig", action.data)) + 4
    IN program_id_size + accounts_size + data_size

\* native Multisig { name, members, threshold }
Multisig_bytes(ms) ==
    Vec([i \in 1..Len(NameBytes(ms.name)) |-> <<NameBytes(ms.name)[i]>>])
        \o Vec([i \in 1..Len(ms.members) |-> PubkeyBytes(ms.members[i])])
        \o U64(ms.threshold)

Multisig_size(ms) ==
    LET members_size == Len(ms.members) * PubkeySize + 4
        name_size == Len(NameBytes(ms.name)) + 4
    IN members_size + name_size + 8

\* native Proposal { id, name, description, actions, approvers, executed,
\* multisig }
Proposal_bytes(p) ==
    U64(p.id)
        \o Vec([i \in 1..Len(ProposalName) |-> <<ProposalName[i]>>])
        \o Vec([i \in 1..Len(ProposalDescription) |->
                   <<ProposalDescription[i]>>])
        \o Vec([i \in 1..Len(p.actions) |-> Action_bytes(p.actions[i])])
        \o Vec([i \in 1..Len(p.approvers) |-> PubkeyBytes(p.approvers[i])])
        \o Bool(p.executed)
        \o PubkeyBytes(p.multisig)

Proposal_size(p) ==
    LET name_size == Len(ProposalName) + 4
        description_size == Len(ProposalDescription) + 4
        approvers_size == Len(p.approvers) * PubkeySize + 4
        actions_size ==
            4 + Sum([i \in 1..Len(p.actions) |-> Action_size(p.actions[i])])
    IN 8 + name_size + description_size + actions_size + approvers_size
         + 1 + PubkeySize

\* Anchor Action { program_id, accounts: Vec<ActionAccount>, data }, with
\* ActionAccount { pubkey, is_signer, is_writable }
AnchorAction_bytes(action) ==
    PubkeyBytes(action.program_id)
        \o Vec([i \in 1..Len(action.accounts) |->
                   PubkeyBytes(action.accounts[i]) \o Bool(TRUE) \o Bool(TRUE)])
        \o Vec([i \in 1..Len(InstructionBytes("anchor_multisig", action.data))
                   |-> <<InstructionBytes("anchor_multisig", action.data)[i]>>])

AnchorAction_size(action) ==
    8 + PubkeySize + 4 + (Len(action.accounts) * (PubkeySize + 2)) + 4
      + Len(InstructionBytes("anchor_multisig", action.data))

\* Anchor #[account] Multisig { name, members, threshold, bump }, behind the
\* 8-byte discriminator of the account type
AnchorMultisig_bytes(ms) ==
    Bytes(8, "Multisig")
        \o Vec([i \in 1..Len(NameBytes(ms.name)) |-> <<NameBytes(ms.name)[i]>>])
        \o Vec([i \in 1..Len(ms.members) |-> PubkeyBytes(ms.members[i])])
        \o U64(ms.threshold)
        \o Bytes(1, "bump")

AnchorMultisig_static_size(name_len, members_len) ==
    8 + 4 + name_len + 4 + (members_len * PubkeySize) + 8 + 1

AnchorMultisig_size(ms) ==
    AnchorMultisig_static_size(Len(NameBytes(ms.name)), Len(ms.members))

\* Anchor #[account] Proposal { id, actions, executed, approvers, bump }
AnchorProposal_bytes(p) ==
    Bytes(8, "Proposal")
        \o U64(p.id)
        \o Vec([i \in 1..Len(p.actions) |-> AnchorAction_bytes(p.actions[i])])
        \o Bool(p.executed)
        \o Vec([i \in 1..Len(p.approvers) |-> PubkeyBytes(p.approvers[i])])
        \o Bytes(1, "bump")

AnchorProposal_static_size(actions, approvers_len) ==
    LET actions_size ==
            4 + Sum([i \in 1..Len(actions) |-> AnchorAction_size(actions[i])])
    IN 8 + 8 + actions_size + 1 + 4 + (approvers_len * PubkeySize) + 1

AnchorProposal_size(p) ==
    AnchorProposal_static_size(p.actions, Len(p.approvers))

\* size() and the encoding of a record or an Action of either program
SizeOf(prog, v) ==
    IF "type" \notin DOMAIN v
    THEN IF prog = "multisig" THEN Action_size(v) ELSE AnchorAction_size(v)
    ELSE IF v.type = "multisig"
    THEN IF prog = "multisig" THEN Multisig_size(v) ELSE AnchorMultisig_size(v)
    ELSE IF prog = "multisig" THEN Proposal_size(v) ELSE AnchorProposal_size(v)

Encoding(prog, v) ==
    IF "type" \notin DOMAIN v
    THEN IF prog = "multisig" THEN Action_bytes(v) ELSE AnchorAction_bytes(v)
    ELSE IF v.type = "multisig"
    THEN IF prog = "multisig" THEN Multisig_bytes(v)
         ELSE AnchorMultisig_bytes(v)
    ELSE IF prog = "multisig" THEN Proposal_bytes(v)
         ELSE AnchorProposal_bytes(v)

\* the Group, Proposal and Action values that the store holds
StoredValues ==
    {accounts[a] : a \in {b \in Pdas : accounts[b].type # "none"}}
        \cup UNION {{accounts[p].actions[i] :
                        i \in 1..Len(accounts[p].actions)} :
                     p \in {q \in ProposalPdas : IsProposal(accounts, q)}}

\* C33: for every Group, Proposal and Action value, size() equals the exact
\* byte length of the value's length-prefixed sequential encoding.
C33_SizeIsEncodedLength ==
    \A v \in StoredValues : SizeOf(program, v) = Len(Encoding(program, v))

\* ------------------------------------------- the record store in storage
\* The specification StoreSpec follows the storage of the records: under it
\* `accounts` maps an address to the host's account there, its owner, its
\* lamports, the length of its data and the record last written to it.  The
\* decisions of the handlers are those of Invoke, taken on the records; the
\* storage calls of each handler are those of storage.rs (native) and of the
\* init and realloc constraints (Anchor).
MaxFunds == 2           \* how often an account is funded from outside

HostAccount(owner, lamports, space, data) ==
    [owner |-> owner, lamports |-> lamports, space |-> space, data |-> data]

StoreAddresses == {G1, P1} \cup Users

\* the records held in the accounts of a store
Values(st) ==
    [a \in Pdas |-> IF a \in DOMAIN st THEN st[a].data ELSE NoAccount]

\* Rent::minimum_balance with the host's default rent: two years of 3480
\* lamports per byte, for the data and 128 bytes of account overhead
minimum_balance(size) == (128 + size) * 3480 * 2

\* the result of a storage call: an error code and the store
Stored(st) == [err |-> "Ok", st |-> st]
Refused(e, st) == [err |-> e, st |-> st]

\* system_instruction::transfer: the source signs, holds no data and holds
\* the amount
system_transfer(st, from, to, lamports, signers) ==
    IF from \notin signers THEN Refused("MissingRequiredSignature", st)
    ELSE IF st[from].owner # "system" \/ st[from].space > 0
    THEN Refused("InvalidArgument", st)
    ELSE IF st[from].lamports < lamports
    THEN Refused("InsufficientFunds", st)
    ELSE Stored([[st EXCEPT ![from].lamports = @ - lamports]
                     EXCEPT ![to].lamports = @ + lamports])

\* system_instruction::create_account: the new account is empty and unfunded
system_create_account(st, from, to, lamports, space, signers) ==
    IF st[to].lamports > 0 \/ st[to].space > 0 \/ st[to].owner # "system"
    THEN Refused("AccountAlreadyInUse", st)
    ELSE LET t == system_transfer(st, from, to, lamports, signers) IN
         IF t.err # "Ok" THEN t
         ELSE Stored([t.st EXCEPT ![to].space = space,
                                  ![to].owner = "program"])

\* AccountInfo::realloc: only the owning program changes the length
realloc(st, pda, new_len) ==
    IF st[pda].owner # "program" THEN Refused("InvalidRealloc", st)
    ELSE Stored([st EXCEPT ![pda].space = new_len])

\* storage::create_pda with the requested size
create_pda_sized(st, payer, signers, pda, account_size) ==
    LET rent_lamports == minimum_balance(account_size) IN
    IF st[pda].owner # "system"
    THEN Refused("AccountAlreadyInitialized", st)
    ELSE IF st[pda].lamports > 0
    THEN LET t == IF rent_lamports > st[pda].lamports
                  THEN system_transfer(st, payer, pda,
                           rent_lamports - st[pda].lamports, signers)
                  ELSE Stored(st)
         IN IF t.err # "Ok" THEN t
            ELSE Stored([t.st EXCEPT ![pda].owner = "program"])
    ELSE system_create_account(st, payer, pda, rent_lamports, account_size,
                               signers)

\* a resize that changes the length without funding it
resize_pda_unfunded(st, pda, new_size, payer, signers) ==
    realloc(st, pda, new_size)

\* storage::resize_pda
resize_pda(st, pda, new_size, payer, signers) ==
    LET rent_lamports == minimum_balance(new_size)
        t == IF rent_lamports > st[pda].lamports
             THEN system_transfer(st, payer, pda,
                      rent_lamports - st[pda].lamports, signers)
             ELSE Stored(st)
    IN IF t.err # "Ok" THEN t ELSE realloc(t.st, pda, new_size)

\* storage::write_to_pda: pda_data[0..data.len()].copy_from_slice(data), which
\* panics if the data of the account is shorter than the bytes
write_to_pda(st, pda, value, data) ==
    IF Len(data) > st[pda].space THEN Refused("ProgramFailedToComplete", st)
    ELSE Stored([st EXCEPT ![pda].data = value])

\* a save that writes the record without resizing its account first
save_without_resize(st, account, payer, signers, multisig) ==
    write_to_pda(st, account, multisig, Multisig_bytes(multisig))

\* Multisig::save: resize to size(), then write
Multisig_save(st, account, payer, signers, multisig) ==
    LET s == resize_pda(st, account, Multisig_size(multisig), payer, signers)
    IN IF s.err # "Ok" THEN s
       ELSE write_to_pda(s.st, account, multisig, Multisig_bytes(multisig))

\* Multisig::create
Multisig_create(st, payer, signers, account, multisig) ==
    LET c == create_pda_sized(st, payer, signers, account,
                              Multisig_size(multisig))
    IN IF c.err # "Ok" THEN c
       ELSE Multisig_save(c.st, account, payer, signers, multisig)

\* Proposal::save
Proposal_save(st, account, proposal) ==
    write_to_pda(st, account, proposal, Proposal_bytes(proposal))

\* Proposal::create: create_pda, realloc to size(), save
Proposal_create(st, payer, signers, account, proposal) ==
    LET c == create_pda_sized(st, payer, signers, account,
                              Proposal_size(proposal))
    IN IF c.err # "Ok" THEN c
       ELSE LET s == realloc(c.st, account, Proposal_size(proposal)) IN
            IF s.err # "Ok" THEN s ELSE Proposal_save(s.st, account, proposal)

\* the storage of proposal::approve: resize_pda paid by the member, then save
Proposal_approve_save(st, account, member, signers, proposal) ==
    LET s == resize_pda(st, account, Proposal_size(proposal), member, signers)
    IN IF s.err # "Ok" THEN s ELSE Proposal_save(s.st, account, proposal)

\* #[account(init, payer = payer, space = space)]
AnchorInitSized(st, payer, signers, account, space) ==
    IF st[account].owner # "system" THEN Refused("AccountAlreadyInUse", st)
    ELSE IF st[account].lamports = 0
    THEN system_create_account(st, payer, account, minimum_balance(space),
                               space, signers)
    ELSE LET t == IF minimum_balance(space) > st[account].lamports
                  THEN system_transfer(st, payer, account,
                           minimum_balance(space) - st[account].lamports,
                           signers)
                  ELSE Stored(st)
         IN IF t.err # "Ok" THEN t
            ELSE Stored([t.st EXCEPT ![account].space = space,
                                     ![account].owner = "program"])

\* #[account(realloc = new_space, realloc::payer = payer)]: growth is paid
\* by the payer through the system program, the surplus of a shrunk account
\* is moved to the payer
AnchorRealloc(st, account, new_space, payer, signers) ==
    LET new_rent_minimum == minimum_balance(new_space)
        lamports == st[account].lamports
        t == IF new_space > st[account].space
             THEN IF new_rent_minimum > lamports
                  THEN system_transfer(st, payer, account,
                           new_rent_minimum - lamports, signers)
                  ELSE Stored(st)
             ELSE IF lamports < new_rent_minimum
             THEN Refused("ProgramFailedToComplete", st)
             ELSE Stored([[st EXCEPT ![payer].lamports =
                                        @ + (lamports - new_rent_minimum)]
                              EXCEPT ![account].lamports =
                                        @ - (lamports - new_rent_minimum)])
    IN IF new_space = st[account].space THEN Stored(st)
       ELSE IF t.err # "Ok" THEN t
       ELSE realloc(t.st, account, new_space)

\* the exit of an Anchor handler serializes the record into its account,
\* which fails if the account is too short
AnchorExit(st, account, value, data) ==
    IF Len(data) > st[account].space
    THEN Refused("AccountDidNotSerialize", st)
    ELSE Stored([st EXCEPT ![account].data = value])

\* the storage calls of a group update that has turned the record at
\* `account` into `new`: the native handlers save with the multisig account
\* as its own payer, the Anchor contexts AddMember and RemoveMember realloc
\* by one Pubkey before the handler runs, UpdateThreshold does not
StoreUpdate(st, prog, op, account, signers, new) ==
    IF prog = "multisig"
    THEN Multisig_save(st, account, account, signers, new)
    ELSE LET old == st[account].data
             r == IF op = "add_member"
                  THEN AnchorRealloc(st, account,
                           AnchorMultisig_size(old) + PubkeySize, account,
                           signers)
                  ELSE IF op = "remove_member"
                  THEN AnchorRealloc(st, account,
                           AnchorMultisig_size(old) - PubkeySize, account,
                           signers)
                  ELSE Stored(st)
         IN IF r.err # "Ok" THEN r
            ELSE AnchorExit(r.st, account, new, AnchorMultisig_bytes(new))

RECURSIVE StoreDispatch(_, _, _, _, _)
\* the calls of a batch from action i on, each signed for the group g, with
\* the storage calls of each
StoreDispatch(st, prog, g, actions, i) ==
    IF i > Len(actions) THEN Stored(st)
    ELSE LET target == actions[i].accounts[1]
             v == Invoke(Values(st), prog, actions[i].data,
                         actions[i].accounts, {g}, 2)
         IN IF v.err # "Ok" THEN Refused(v.err, st)
            ELSE LET s == StoreUpdate(st, prog, actions[i].data.op, target,
                                      {g}, v.st[target])
                 IN IF s.err # "Ok" THEN s
                    ELSE StoreDispatch(s.st, prog, g, actions, i + 1)

\* create with its storage
store_create(st, prog, payer, in) ==
    LET g == MultisigPda(in.name)
        v == Invoke(Values(st), prog,
                    IxCreate(prog, in.name, in.members, in.threshold),
                    CreateAccounts(payer, in.name), {payer}, 1)
    IN IF v.err # "Ok" THEN Refused(v.err, st)
       ELSE IF prog = "multisig"
       THEN Multisig_create(st, payer, {payer}, g, v.st[g])
       ELSE LET c == AnchorInitSized(st, payer, {payer}, g,
                         AnchorMultisig_static_size(Len(NameBytes(in.name)),
                                                    Len(in.members)))
            IN IF c.err # "Ok" THEN c
               ELSE AnchorExit(c.st, g, v.st[g], AnchorMultisig_bytes(v.st[g]))

\* create_proposal with its storage
store_create_proposal(st, prog, member, g, p, actions) ==
    LET v == Invoke(Values(st), prog, IxCreateProposal(prog, 0, actions),
                    ProposalAccounts(member, g, p), {member}, 1)
    IN IF v.err # "Ok" THEN Refused(v.err, st)
       ELSE IF prog = "multisig"
       THEN Proposal_create(st, member, {member}, p, v.st[p])
       ELSE LET c == AnchorInitSized(st, member, {member}, p,
                         AnchorProposal_static_size(actions, 0))
            IN IF c.err # "Ok" THEN c
               ELSE AnchorExit(c.st, p, v.st[p], AnchorProposal_bytes(v.st[p]))

\* approve (without try_execute) with its storage
store_approve(st, prog, member, g, p) ==
    LET v == Invoke(Values(st), prog, IxApprove(prog, FALSE),
                    ProposalAccounts(member, g, p), {member}, 1)
    IN IF v.err # "Ok" THEN Refused(v.err, st)
       ELSE IF prog = "multisig"
       THEN Proposal_approve_save(st, p, member, {member}, v.st[p])
       ELSE LET r == AnchorRealloc(st, p,
                         AnchorProposal_size(st[p].data) + PubkeySize,
                         member, {member})
            IN IF r.err # "Ok" THEN r
               ELSE AnchorExit(r.st, p, v.st[p], AnchorProposal_bytes(v.st[p]))

\* execute with its storage: the proposal is written in place, every
\* dispatched update stores its group
store_execute(st, prog, caller, g, p) ==
    LET vals == Values(st)
        v == Invoke(vals, prog, IxExecuteProposal(prog),
                    ExecuteAccounts(prog, caller, g, p, Stream(vals, p)),
                    {caller}, 1)
        proposal == [vals[p] EXCEPT !.executed = TRUE]
        w == IF prog = "multisig" THEN Proposal_save(st, p, proposal)
             ELSE AnchorExit(st, p, proposal, AnchorProposal_bytes(proposal))
    IN IF v.err # "Ok" THEN Refused(v.err, st)
       ELSE IF w.err # "Ok" THEN w
       ELSE StoreDispatch(w.st, prog, g, proposal.actions, 1)

\* the lamports a principal starts with
Airdrop(a) == IF a = User(1) THEN 10000000 ELSE 0

\* the rent of one more Pubkey in a record
GrowthRent == minimum_balance(PubkeySize) - minimum_balance(0)

\* what an account holds beyond the rent of its data
Surplus(st, a) ==
    st[a].lamports
        - (IF st[a].owner = "program" THEN minimum_balance(st[a].space) ELSE 0)

\* the groups created under StoreSpec, and the batches of their proposals
StoreCreateInputs ==
    {[name |-> "g1", members |-> m, threshold |-> t] :
        m \in {<<User(1)>>, <<User(1), User(2)>>, <<User(1), User(2), User(1)>>},
        t \in 1..MaxThreshold}

StoreBatches(prog) ==
    {AddM2(prog), RemoveM1(prog), RaiseThreshold(prog), AddM2ThenRaise(prog)}

StoreInit ==
    /\ program \in Programs
    /\ accounts = [a \in StoreAddresses |->
                      HostAccount("system", Airdrop(a), 0, NoAccount)]
    /\ last = [op |-> "none", log |-> <<>>]
    /\ dispatched = [p \in ProposalPdas |-> 0]

\* the host applies the writes of a successful invocation only
StoreSubmit(op, r) ==
    IF r.err = "Ok"
    THEN /\ accounts' = r.st
         /\ last' = [op |-> op, log |-> <<>>]
         /\ UNCHANGED <<program, dispatched>>
    ELSE UNCHANGED vars

\* a transfer of lamports to a record or to the second principal, as the
\* tests fund the multisig
StoreFund ==
    /\ \E to \in {G1, User(2)} :
         /\ Surplus(accounts, to) < MaxFunds * GrowthRent
         /\ StoreSubmit("fund", system_transfer(accounts, User(1), to,
                                                GrowthRent, {User(1)}))

StoreCreate ==
    /\ \E in \in StoreCreateInputs :
         StoreSubmit("create", store_create(accounts, program, User(1), in))

StoreCreateProposal ==
    /\ \E member \in Users, b \in StoreBatches(program) :
         StoreSubmit("create_proposal",
             store_create_proposal(accounts, program, member, G1, P1, b))

StoreApprove ==
    /\ \E member \in Users :
         StoreSubmit("approve",
             store_approve(accounts, program, member, G1, P1))

StoreExecute ==
    /\ \E caller \in Users :
         StoreSubmit("execute",
             store_execute(accounts, program, caller, G1, P1))

StoreNext ==
    \/ StoreFund
    \/ StoreCreate
    \/ StoreCreateProposal
    \/ StoreApprove
    \/ StoreExecute

StoreSpec == StoreInit /\ [][StoreNext]_vars

\* the records of the program in storage
StoredRecords == {a \in {G1, P1} : accounts[a].owner = "program"}

\* the members of a Group record, the approvers of a Proposal record
Entries(v) == IF v.type = "multisig" THEN v.members ELSE v.approvers

\* the state part of C32
C32_AllocationIsSize ==
    \A a \in StoredRecords :
        /\ accounts[a].data.type # "none"
        /\ accounts[a].space = SizeOf(program, accounts[a].data)

\* C32: after every successful mutating operation the backing allocation of
\* the Group or Proposal record equals the size() computed from its new
\* value (the record is resized before the value is written), and the
\* allocation grows by one address width per added member or approver and
\* shrinks by one per removed member.
C32_AllocationFollowsValue ==
    /\ []C32_AllocationIsSize
    /\ [][\A a \in {G1, P1} :
            (accounts[a].owner = "program" /\ accounts'[a].owner = "program")
            => accounts'[a].space - accounts[a].space
                 = PubkeySize * (Len(Entries(accounts'[a].data))
                                   - Len(Entries(accounts[a].data)))]_vars

\* a group that has grown by a member and a proposal that has grown by an
\* approver, each allocated at its size
C32_Witness ==
    /\ StoredRecords = {G1, P1}
    /\ last.op = "execute"
    /\ accounts[G1].data.members = <<User(1), User(2)>>
    /\ accounts[P1].data.approvers = <<User(1)>>
    /\ accounts[P1].data.actions = AddM2(program)
    /\ accounts[G1].space = SizeOf(program, accounts[G1].data)
    /\ accounts[P1].space = SizeOf(program, accounts[P1].data)

\* the state part of C34
C34_ReserveCoversSize ==
    \A a \in StoredRecords :
        accounts[a].lamports >= minimum_balance(accounts[a].space)

\* C34: after every successful create or resize the record's storage-cost
\* reserve is at least the minimum reserve for its current size, and no
\* create or resize ever decreases a record's reserve: a shrinking resize
\* reclaims nothing.
C34_ReserveNeverDecreases ==
    /\ []C34_ReserveCoversSize
    /\ [][\A a \in {G1, P1} :
            /\ accounts'[a].lamports >= accounts[a].lamports
            /\ accounts'[a].space < accounts[a].space
               => accounts'[a].lamports = accounts[a].lamports]_vars

\* a group that has shrunk by a member and still holds the reserve of its
\* former size, beside a proposal that has grown by an approver and holds
\* exactly the reserve of its new size
C34_Witness ==
    /\ StoredRecords = {G1, P1}
    /\ last.op = "execute"
    /\ accounts[P1].data.actions = RemoveM1(program)
    /\ accounts[G1].data.members = <<User(2)>>
    /\ accounts[G1].lamports
         = minimum_balance(accounts[G1].space + PubkeySize)
    /\ accounts[P1].data.approvers = <<User(1)>>
    /\ accounts[P1].lamports = minimum_balance(accounts[P1].space)

\* the group back-reference of the Proposal at p: the stored `multisig` of
\* the native record, the seed of the address of the Anchor record
BackReference(st, p) ==
    IF "multisig" \in DOMAIN st[p] THEN st[p].multisig ELSE GroupOf(p)

\* C35: once a Proposal is created, its id, its actions (content and order)
\* and its group back-reference never change: approve and execute, like
\* every other operation, leave all three unchanged.
C35_ProposalContentFixed ==
    [][\A p \in ProposalPdas :
         IsProposal(accounts, p)
         => /\ IsProposal(accounts', p)
            /\ accounts'[p].id = accounts[p].id
            /\ accounts'[p].actions = accounts[p].actions
            /\ BackReference(accounts', p) = BackReference(accounts, p)]_vars

\* a proposal that was approved and executed and still carries the batch,
\* the id and the group it was created with
C35_Witness ==
    /\ IsExecuted(accounts, P1)
    /\ accounts[P1].approvers = <<User(1)>>
    /\ last.op \in {"ExecuteProposal", "execute_proposal"}
    /\ accounts[P1].id = 0
    /\ accounts[P1].actions = AddM2(program)
    /\ BackReference(accounts, P1) = G1

\* the state part of C36: whatever its operands, a create_proposal or an
\* approve without auto-execute writes no Group record and dispatches nothing
C36_ProposalOperationsKeepGroups ==
    \A member \in Users, g \in MultisigPdas, p \in ProposalPdas :
        /\ \A b \in Batches(program) :
              LET r == CreateProposalOutcome(member, g, p, b) IN
              /\ r.log = <<>>
              /\ \A h \in MultisigPdas : r.st[h] = accounts[h]
        /\ LET r == ApproveOutcome(member, g, p) IN
           /\ r.log = <<>>
           /\ \A h \in MultisigPdas : r.st[h] = accounts[h]

\* C36: create_proposal, approve without auto-execute, and a failed execute
\* leave the Group's name, members and threshold unchanged: a Group record
\* changes only in a step in which an execution has succeeded and
\* dispatched actions.
C36_GroupChangedOnlyByDispatch ==
    /\ []C36_ProposalOperationsKeepGroups
    /\ [][\A h \in MultisigPdas :
            (IsMultisig(accounts, h) /\ accounts'[h] # accounts[h])
            => /\ last'.op \in {"ExecuteProposal", "execute_proposal", "Approve"}
               /\ last'.log # <<>>
               /\ \E p \in ProposalPdas :
                     IsExecuted(accounts', p) /\ ~IsExecuted(accounts, p)]_vars

\* an approved proposal whose execution fails at its second action, after
\* the first has raised the threshold in the handler's view: the group still
\* has its threshold of 1
C36_Witness ==
    /\ IsMultisig(accounts, G1) /\ IsProposal(accounts, P1)
    /\ accounts[G1].members = <<User(1), User(2)>>
    /\ accounts[G1].threshold = 1
    /\ accounts[P1].actions = RaiseThenRemoveM1(program)
    /\ accounts[P1].approvers = <<User(1)>>
    /\ ~accounts[P1].executed
    /\ last.op \in {"Approve", "approve_proposal"}
    /\ LET r == ExecuteOutcome(User(2), G1, P1, Stream(accounts, P1)) IN
       r.err # "Ok" /\ r.st[G1].threshold = 2

\* an approve of the proposal at p by `member`, supplied with the group g,
\* submitted in the store st; with try_execute the operands of the chained
\* execute follow
ApproveOn(st, member, g, p, try_execute) ==
    Invoke(st, program, IxApprove(program, try_execute),
           ProposalAccounts(member, g, p)
               \o (IF try_execute
                   THEN ExecuteAccounts(program, member, g, p, Stream(st, p))
                   ELSE <<>>),
           {member}, 1)

ApproverSet(st, p) == {st[p].approvers[i] : i \in 1..Len(st[p].approvers)}

\* two approvals of an Open Proposal by current members who have not yet
\* approved, ordered by the host one way or the other; `flags` are the
\* try_execute flags the two invocations may carry, Case(p) the proposals
\* looked at
RaceResolvedByOrder(flags, Case(_)) ==
    \A p \in ProposalPdas, a \in Users, b \in Users, f1 \in flags, f2 \in flags :
        LET g == GroupOf(p)
            a1 == ApproveOn(accounts, a, g, p, f1)
            b2 == ApproveOn(a1.st, b, g, p, f2)
            b1 == ApproveOn(accounts, b, g, p, f2)
            a2 == ApproveOn(b1.st, a, g, p, f1)
        IN (/\ IsProposal(accounts, p) /\ ~IsExecuted(accounts, p)
            /\ Case(p)
            /\ IsMemberOf(accounts, g, a) /\ IsMemberOf(accounts, g, b)
            /\ ~Contains(accounts[p].approvers, a)
            /\ ~Contains(accounts[p].approvers, b))
           => /\ a1.err = "Ok"
              /\ a # b
                 => /\ b2.err = "Ok" /\ a2.err = "Ok"
                    /\ ApproverSet(b2.st, p) = ApproverSet(a2.st, p)
                    /\ Len(b2.st[p].approvers) = Len(a2.st[p].approvers)
                    /\ Len(b2.st[p].approvers) = Len(accounts[p].approvers) + 2
              /\ a = b => b2.err = "AlreadyApproved"

\* the try_execute flags an approve of the deployed program takes
ApproveFlags == IF program = "multisig" THEN {FALSE, TRUE} ELSE {FALSE}

\* a proposal to raise the threshold to 2, of a group of two members with a
\* threshold within its members: its batch succeeds when it is executed
RaisesThreshold(p) ==
    /\ accounts[p].actions = RaiseThreshold(program)
    /\ IsMultisig(accounts, GroupOf(p))
    /\ Len(accounts[GroupOf(p)].members) = 2
    /\ accounts[GroupOf(p)].threshold \in 1..2

AnyProposal(p) == TRUE

ExecuteOn(st, caller, g, p) ==
    Invoke(st, program, IxExecuteProposal(program),
           ExecuteAccounts(program, caller, g, p, Stream(st, p)), {caller}, 1)

IsPrefix(s, t) == Len(s) <= Len(t) /\ SubSeq(t, 1, Len(s)) = s

\* the state part of C38: a remove_member issued under the authority of the
\* group writes no Proposal, and an execute ordered after the removal of an
\* approver counts the stored approvers against the threshold and goes on
\* to the batch
C38_RemovalKeepsApprovals ==
    \A p \in ProposalPdas, m \in Users, caller \in Users :
        LET g == GroupOf(p)
            removal == GroupCallOutcome(g, IxRemoveMember(program, m))
            st == removal.st
            native == program = "multisig"
            exp == ApplyInOrder(
                       IF native THEN [st EXCEPT ![p].executed = TRUE] ELSE st,
                       g, {caller}, st[p].actions)
            r == ExecuteOn(st, caller, g, p)
        IN (removal.err = "Ok" /\ IsProposal(accounts, p))
           => /\ \A q \in ProposalPdas : st[q] = accounts[q]
              /\ (/\ Contains(accounts[p].approvers, m)
                  /\ ~IsExecuted(accounts, p)
                  /\ Len(accounts[p].approvers) >= st[g].threshold)
                 => r.err = IF exp.ok THEN "Ok" ELSE exp.err

\* C38: an approval stays counted after its approver is removed from the
\* Group: remove_member never changes any Proposal's approvers (no step
\* takes an approver off a Proposal), and execute compares the stored
\* approver count with the current threshold without re-checking that the
\* approvers are still members.
C38_ApprovalsOutliveMembership ==
    /\ []C38_RemovalKeepsApprovals
    /\ [][\A p \in ProposalPdas :
            IsProposal(accounts, p)
            => IsPrefix(accounts[p].approvers, accounts'[p].approvers)]_vars

\* User(2) has approved the open proposal of g1 and can be removed from g1;
\* the execute that follows the removal succeeds on the approval of User(2)
C38_Witness ==
    /\ IsProposal(accounts, P1) /\ ~IsExecuted(accounts, P1)
    /\ accounts[P1].approvers = <<User(2)>>
    /\ accounts[P1].actions = AddM2(program)
    /\ accounts[G1].members = <<User(1), User(2)>>
    /\ LET removal == GroupCallOutcome(G1, IxRemoveMember(program, User(2)))
       IN /\ removal.err = "Ok"
          /\ removal.st[G1].members = <<User(1)>>
          /\ removal.st[P1].approvers = <<User(2)>>
          /\ ExecuteOn(removal.st, User(1), G1, P1).err = "Ok"

\* C39: execute places no requirement on its caller: once an Open
\* Proposal's approver count meets the threshold, an execute invocation by
\* any principal, member of the Group or not and approver or not, has the
\* same outcome, and it executes the Proposal whenever its batch succeeds.
C39_AnyoneExecutes ==
    \A p \in ProposalPdas, c1 \in Users, c2 \in Users :
        LET g == GroupOf(p)
            native == program = "multisig"
            exp == ApplyInOrder(
                       IF native THEN [accounts EXCEPT ![p].executed = TRUE]
                       ELSE accounts,
                       g, {c1}, accounts[p].actions)
            r1 == ExecuteOn(accounts, c1, g, p)
            r2 == ExecuteOn(accounts, c2, g, p)
        IN (/\ IsProposal(accounts, p) /\ ~IsExecuted(accounts, p)
            /\ IsMultisig(accounts, g)
            /\ Len(accounts[p].approvers) >= accounts[g].threshold)
           => /\ r1.err = r2.err
              /\ r1.err = "Ok" => r1.st = r2.st
              /\ exp.ok => r1.err = "Ok" /\ IsExecuted(r1.st, p)

\* User(2), who is no member of g1 and has not approved, executes the
\* proposal that User(1) has approved
C39_Witness ==
    /\ IsProposal(accounts, P1) /\ ~IsExecuted(accounts, P1)
    /\ accounts[G1].members = <<User(1)>>
    /\ accounts[G1].threshold = 1
    /\ accounts[P1].approvers = <<User(1)>>
    /\ accounts[P1].actions = AddM2(program)
    /\ LET r == ExecuteOn(accounts, User(2), G1, P1) IN
       /\ r.err = "Ok"
       /\ IsExecuted(r.st, P1)
       /\ r.st[G1].members = <<User(1), User(2)>>

\* C40: in approve-with-auto-execute the execute step takes its group and
\* proposal from the operands that follow the first four, re-reads them and
\* re-checks threshold and executed on them: even when those operands name
\* a different Proposal or Group than the one just approved, the chained
\* step never executes a Proposal that is already executed or whose
\* approver count is below the threshold of the group it is checked against.
C40_ChainedExecuteRechecks ==
    \A member \in Users, g \in MultisigPdas, p \in ProposalPdas,
       g2 \in MultisigPdas, p2 \in ProposalPdas :
        LET r == Outcome(IxApprove(program, TRUE),
                         ProposalAccounts(member, g, p)
                             \o ExecuteAccounts(program, member, g2, p2,
                                                Stream(accounts, p2)),
                         {member})
            approved == [accounts EXCEPT ![p].approvers = Append(@, member)]
            chained == Len(approved[p].approvers) >= accounts[g].threshold
        IN (/\ program = "multisig"
            /\ IsProposal(accounts, p) /\ IsMultisig(accounts, g)
            /\ chained)
           => /\ r.err = "Ok"
                 => /\ IsProposal(accounts, p2) /\ IsMultisig(accounts, g2)
                    /\ ~IsExecuted(approved, p2)
                    /\ Len(approved[p2].approvers) >= approved[g2].threshold
                    /\ IsExecuted(r.st, p2)
                    /\ \A i \in 1..Len(r.log) :
                          r.log[i].proposal = p2 => r.log[i].authority = g2
              /\ (IsProposal(accounts, p2) /\ IsMultisig(accounts, g2))
                 => /\ IsExecuted(approved, p2)
                       => r.err \in {"AlreadyExecuted", "NotEnoughApprovals",
                                     "NotAMember", "AlreadyApproved"}
                    /\ Len(approved[p2].approvers) < approved[g2].threshold
                       => r.err \in {"NotEnoughApprovals", "NotAMember",
                                     "AlreadyApproved"}

\* an approval of the proposal of g1 has chained into the execution of the
\* proposal of g2, named by the operands after the first four
C40_Witness ==
    /\ program = "multisig"
    /\ last.op = "Approve"
    /\ last.log = <<Event(G2, P2, 1)>>
    /\ IsExecuted(accounts, P2)
    /\ IsProposal(accounts, P1) /\ ~IsExecuted(accounts, P1)
    /\ accounts[P1].approvers # <<>>
    /\ accounts[G2].members = <<User(2), User(1)>>

====
